---- MODULE Spec2Model ----
(***************************************************************************)
(* Real-time interpreter server: the per-session streaming core.           *)
(*   config/settings.py        Config                                     *)
(*   language/topology.py      LanguageTopology                           *)
(*   audio/vad.py              VADProcessor                               *)
(*   models/session.py         SessionState                               *)
(*   services/conversation.py  ConversationServicer                       *)
(* The room cache (models.room_cache) is used by the servicer but its     *)
(* source is not part of the tree; it is modelled from its contract.      *)
(***************************************************************************)
EXTENDS Integers, Sequences, FiniteSets, TLC

\* ------------------------------------------------------------------------
\* Bounds of the model
\* ------------------------------------------------------------------------

\* most speech chunks a stream carries between two resets of its VAD
MaxSpeechChunks == 3
\* most speech chunks a VAD driven on its own gets between two resets
MaxVadChunks == 5
\* most pipeline invocations of one session before the client stops sending
MaxDrains == 2
\* the pipeline invocations that meet at the room cache
MaxCalls == 2
\* most SessionState objects the streams of a room scenario create
MaxSessions == 2
\* most speech chunks buffered in one session of a room scenario
MaxRoomChunks == 2
\* frames in a chunk of a speaker's voice
VoiceFrames == 12

\* ------------------------------------------------------------------------
\* config/settings.py
\* ------------------------------------------------------------------------

SAMPLE_RATE == 16000
BYTES_PER_SAMPLE == 2
BYTES_PER_SECOND == SAMPLE_RATE * BYTES_PER_SAMPLE
CHUNK_DURATION_MS == 1500
CHUNK_BYTES == (BYTES_PER_SECOND * CHUNK_DURATION_MS) \div 1000
SENTENCE_MAX_DURATION_MS == 2500
SENTENCE_MAX_BYTES == (BYTES_PER_SECOND * SENTENCE_MAX_DURATION_MS) \div 1000
SILENCE_THRESHOLD_RMS == 30
SILENCE_DURATION_MS == 350
MIN_TTS_TEXT_LENGTH == 2

\* A text is a sequence of characters; a character is a one-character string,
\* or the name of its code point when it is not ASCII.
FILLER_WORDS ==
    { <<"U+B124">>, <<"U+C608">>, <<"U+C751">>, <<"U+C74C">>, <<"U+C5B4">>,
      <<"U+C544">>, <<"U+C73C">>, <<"U+D760">>, <<"U+BB50">>, <<"U+ADF8">>,
      <<"U+C800">>,
      <<"U+C544", "U+C544">>, <<"U+C5B4", "U+C5B4">>, <<"U+C74C", "U+C74C">>,
      <<"U+B124", "U+B124">>, <<"U+C608", "U+C608">>, <<"U+ADF8", "U+B798">>,
      <<"U+C751", "U+C751">>,
      <<"u", "h">>, <<"u", "m">>, <<"a", "h">>, <<"o", "h">>,
      <<"h", "m", "m">>, <<"y", "e", "a", "h">>, <<"y", "e", "s">>,
      <<"n", "o">>, <<"o", "k">>, <<"o", "k", "a", "y">>,
      <<"w", "e", "l", "l">>, <<"s", "o">>, <<"l", "i", "k", "e">>,
      <<"y", "o", "u", " ", "k", "n", "o", "w">>,
      <<"i", " ", "m", "e", "a", "n">>,
      <<"U+3042">>, <<"U+3048">>, <<"U+3046">>, <<"U+3093">>,
      <<"U+306F", "U+3044">>, <<"U+3046", "U+3093">>, <<"U+3048", "U+3048">>,
      <<"U+307E", "U+3042">>,
      <<"U+55EF">>, <<"U+554A">>, <<"U+54E6">>, <<"U+5443">>, <<"U+597D">>,
      <<"U+662F">> }

\* ------------------------------------------------------------------------
\* str.strip() and str.lower() on texts
\* ------------------------------------------------------------------------

IsSpace(c) == c \in {" ", "\t", "\n"}

RECURSIVE LStrip(_)
LStrip(t) ==
    IF t = <<>> THEN <<>>
    ELSE IF IsSpace(Head(t)) THEN LStrip(Tail(t)) ELSE t

RECURSIVE RStrip(_)
RStrip(t) ==
    IF t = <<>> THEN <<>>
    ELSE IF IsSpace(t[Len(t)]) THEN RStrip(SubSeq(t, 1, Len(t) - 1)) ELSE t

Strip(t) == RStrip(LStrip(t))

LowerChar(c) ==
    CASE c = "A" -> "a" [] c = "B" -> "b" [] c = "C" -> "c" [] c = "D" -> "d"
      [] c = "E" -> "e" [] c = "F" -> "f" [] c = "G" -> "g" [] c = "H" -> "h"
      [] c = "I" -> "i" [] c = "J" -> "j" [] c = "K" -> "k" [] c = "L" -> "l"
      [] c = "M" -> "m" [] c = "N" -> "n" [] c = "O" -> "o" [] c = "P" -> "p"
      [] c = "Q" -> "q" [] c = "R" -> "r" [] c = "S" -> "s" [] c = "T" -> "t"
      [] c = "U" -> "u" [] c = "V" -> "v" [] c = "W" -> "w" [] c = "X" -> "x"
      [] c = "Y" -> "y" [] c = "Z" -> "z" [] OTHER -> c

Lower(t) == [i \in 1..Len(t) |-> LowerChar(t[i])]

\* text.lower().strip() in FILLER_WORDS or text.strip() in FILLER_WORDS
IsFiller(t) == Strip(Lower(t)) \in FILLER_WORDS \/ Strip(t) \in FILLER_WORDS

\* ------------------------------------------------------------------------
\* language/topology.py
\* ------------------------------------------------------------------------

CHUNK_BASED == "chunk"
SENTENCE_BASED == "sentence"

SOV_LANGUAGES == {"ko", "ja", "tr", "hi", "bn"}
SVO_LANGUAGES == {"en", "zh", "es", "fr", "de", "pt", "ru", "it"}
VSO_LANGUAGES == {"ar", "he"}

\* WORD_ORDER_GROUPS.get(lang, ...) with a plausible slip: no default group
WordOrderGroup_no_default(lang) ==
    IF lang \in VSO_LANGUAGES THEN "VSO"
    ELSE IF lang \in SVO_LANGUAGES THEN "SVO"
    ELSE IF lang \in SOV_LANGUAGES THEN "SOV"
    ELSE lang

\* WORD_ORDER_GROUPS.get(lang, "SVO")
WordOrderGroup(lang) ==
    IF lang \in VSO_LANGUAGES THEN "VSO"
    ELSE IF lang \in SVO_LANGUAGES THEN "SVO"
    ELSE IF lang \in SOV_LANGUAGES THEN "SOV"
    ELSE "SVO"

get_strategy(source_lang, target_lang) ==
    IF WordOrderGroup(source_lang) = WordOrderGroup(target_lang)
    THEN CHUNK_BASED
    ELSE SENTENCE_BASED

get_buffer_duration_ms(source_lang, target_lang) ==
    IF get_strategy(source_lang, target_lang) = CHUNK_BASED
    THEN CHUNK_DURATION_MS
    ELSE SENTENCE_MAX_DURATION_MS

\* ------------------------------------------------------------------------
\* audio/vad.py
\* ------------------------------------------------------------------------
\* Audio is a sequence of pieces of PCM bytes. A piece [id, n, vad, rms] stands
\* for n bytes with content id; for a whole 30 ms frame, vad is what the WebRTC
\* classifier answers for it ("speech", "silence", or "error" when it raises)
\* and rms its RMS on the int16 scale. A chunk holds whole frames followed by
\* at most one shorter piece.

frame_duration_ms == 30
frame_size == ((SAMPLE_RATE * frame_duration_ms) \div 1000) * 2
min_speech_frames == 3

\* int(Config.SILENCE_DURATION_MS / self.frame_duration_ms), with a plausible
\* slip: rounding up instead of truncating
max_silence_frames_ceil ==
    (SILENCE_DURATION_MS + frame_duration_ms - 1) \div frame_duration_ms

max_silence_frames == SILENCE_DURATION_MS \div frame_duration_ms

\* the bytes of the pieces lo..hi of audio, summed by halves
RECURSIVE BytesOf(_, _, _)
BytesOf(audio, lo, hi) ==
    IF lo > hi THEN 0
    ELSE IF lo = hi THEN audio[lo].n
    ELSE LET mid == (lo + hi) \div 2
         IN  BytesOf(audio, lo, mid) + BytesOf(audio, mid + 1, hi)

\* len(audio_bytes)
ByteLen(audio) == [a \in {audio} |-> BytesOf(a, 1, Len(a))][audio]

\* the slices audio_bytes[i:i + frame_size] of the loop
\*   for i in range(0, len(audio_bytes) - frame_size + 1, frame_size)
CompleteFrames(audio) == SelectSeq(audio, LAMBDA p : p.n = frame_size)

\* self.vad.is_speech(frame, ...) with the RMS fallback of the except branch
IsSpeechFrame(f) ==
    IF f.vad = "error" THEN f.rms >= SILENCE_THRESHOLD_RMS ELSE f.vad = "speech"

\* speech_ratio >= 0.3, over the complete frames
has_speech(audio) ==
    IF ByteLen(audio) < frame_size THEN FALSE
    ELSE \E frames \in { CompleteFrames(audio) } :
         \E total_frames \in { Len(frames) } :
         \E speech_frame_count \in { Len(SelectSeq(frames, IsSpeechFrame)) } :
            IF total_frames > 0
            THEN 10 * speech_frame_count >= 3 * total_frames
            ELSE FALSE

filter_speech(audio) ==
    IF ByteLen(audio) < frame_size THEN audio
    ELSE SelectSeq(CompleteFrames(audio), IsSpeechFrame)

NewVAD == [is_speaking |-> FALSE, silence_frames |-> 0, speech_frames |-> 0]

\* process_chunk with a plausible slip: silence is counted, and a sentence
\* end returned, without the test of is_speaking
process_chunk_of_unguarded(vad, hs) ==
    IF hs
    THEN [vad |-> [is_speaking |->
                       vad.is_speaking
                       \/ (vad.speech_frames + 1 >= min_speech_frames),
                   silence_frames |-> 0,
                   speech_frames |-> vad.speech_frames + 1],
          has_speech |-> TRUE, is_sentence_end |-> FALSE]
    ELSE IF vad.silence_frames + 1 >= max_silence_frames
    THEN [vad |-> NewVAD, has_speech |-> FALSE, is_sentence_end |-> TRUE]
    ELSE [vad |-> [vad EXCEPT !.silence_frames = @ + 1],
          has_speech |-> FALSE, is_sentence_end |-> FALSE]

\* the result of process_chunk on a chunk whose has_speech() is hs:
\* the VAD afterwards and the returned pair
\* process_chunk with a plausible slip: a chunk without speech in Idle starts
\* the count of speech chunks again
process_chunk_of_consecutive(vad, hs) ==
    IF hs
    THEN [vad |-> [is_speaking |->
                       vad.is_speaking
                       \/ (vad.speech_frames + 1 >= min_speech_frames),
                   silence_frames |-> 0,
                   speech_frames |-> vad.speech_frames + 1],
          has_speech |-> TRUE, is_sentence_end |-> FALSE]
    ELSE IF vad.is_speaking
    THEN IF vad.silence_frames + 1 >= max_silence_frames
         THEN [vad |-> NewVAD, has_speech |-> FALSE, is_sentence_end |-> TRUE]
         ELSE [vad |-> [vad EXCEPT !.silence_frames = @ + 1],
               has_speech |-> FALSE, is_sentence_end |-> FALSE]
    ELSE [vad |-> NewVAD, has_speech |-> FALSE, is_sentence_end |-> FALSE]

\* process_chunk with a plausible slip: a speech chunk leaves the count of
\* silent chunks as it is
process_chunk_of_silence_kept(vad, hs) ==
    IF hs
    THEN [vad |-> [is_speaking |->
                       vad.is_speaking
                       \/ (vad.speech_frames + 1 >= min_speech_frames),
                   silence_frames |-> vad.silence_frames,
                   speech_frames |-> vad.speech_frames + 1],
          has_speech |-> TRUE, is_sentence_end |-> FALSE]
    ELSE IF vad.is_speaking
    THEN IF vad.silence_frames + 1 >= max_silence_frames
         THEN [vad |-> NewVAD, has_speech |-> FALSE, is_sentence_end |-> TRUE]
         ELSE [vad |-> [vad EXCEPT !.silence_frames = @ + 1],
               has_speech |-> FALSE, is_sentence_end |-> FALSE]
    ELSE [vad |-> vad, has_speech |-> FALSE, is_sentence_end |-> FALSE]

process_chunk_of(vad, hs) ==
    IF hs
    THEN [vad |-> [is_speaking |->
                       vad.is_speaking
                       \/ (vad.speech_frames + 1 >= min_speech_frames),
                   silence_frames |-> 0,
                   speech_frames |-> vad.speech_frames + 1],
          has_speech |-> TRUE, is_sentence_end |-> FALSE]
    ELSE IF vad.is_speaking
    THEN IF vad.silence_frames + 1 >= max_silence_frames
         THEN [vad |-> NewVAD, has_speech |-> FALSE, is_sentence_end |-> TRUE]
         ELSE [vad |-> [vad EXCEPT !.silence_frames = @ + 1],
               has_speech |-> FALSE, is_sentence_end |-> FALSE]
    ELSE [vad |-> vad, has_speech |-> FALSE, is_sentence_end |-> FALSE]

process_chunk(vad, audio) == process_chunk_of(vad, has_speech(audio))

reset(vad) == NewVAD

\* ------------------------------------------------------------------------
\* models/session.py
\* ------------------------------------------------------------------------
\* A Speaker is [participant_id, nickname, source_language]; a Participant is
\* [participant_id, target_language, translation_enabled]. The roster
\* (participants, a dict in insertion order) is a sequence of Participants
\* with distinct ids. Display names and avatars of participants are carried
\* through unchanged and are left out.

\* the attributes a SessionState object has
SessionStateFields ==
    { "session_id", "room_id", "speaker", "participants", "audio_buffer",
      "text_buffer", "vad", "primary_strategy", "chunks_processed",
      "silence_skipped", "sentences_completed" }

get_target_languages(s) ==
    { s.participants[i].target_language :
        i \in { j \in 1..Len(s.participants) :
                  /\ s.participants[j].translation_enabled
                  /\ s.participants[j].target_language
                       # s.speaker.source_language } }

\* get_participants_by_target_language with a plausible slip: the flag of
\* the participant is not read
get_participants_by_target_language_any_flag(s, target_lang) ==
    LET keep(p) == p.target_language = target_lang
        kept == SelectSeq(s.participants, keep)
    IN  [i \in 1..Len(kept) |-> kept[i].participant_id]

get_participants_by_target_language(s, target_lang) ==
    LET keep(p) == p.translation_enabled /\ p.target_language = target_lang
        kept == SelectSeq(s.participants, keep)
    IN  [i \in 1..Len(kept) |-> kept[i].participant_id]

\* the strategy determine_primary_strategy stores and returns
primary_strategy_of(s) ==
    IF \E target_lang \in get_target_languages(s) :
          get_strategy(s.speaker.source_language, target_lang) = SENTENCE_BASED
    THEN SENTENCE_BASED
    ELSE CHUNK_BASED

determine_primary_strategy(s) ==
    [s EXCEPT !.primary_strategy = primary_strategy_of(s)]

\* participants[p.participant_id] = Participant(...) for p in init.participants
RECURSIVE PutParticipant(_, _)
PutParticipant(roster, p) ==
    IF roster = <<>> THEN <<p>>
    ELSE IF Head(roster).participant_id = p.participant_id
    THEN <<p>> \o Tail(roster)
    ELSE <<Head(roster)>> \o PutParticipant(Tail(roster), p)

RECURSIVE MakeParticipants(_, _)
MakeParticipants(roster, list) ==
    IF list = <<>> THEN roster
    ELSE MakeParticipants(PutParticipant(roster, Head(list)), Tail(list))

\* SessionState(session_id=..., room_id=..., speaker=..., participants=...)
NewSessionState(session_id, room_id, speaker, participants) ==
    [ session_id |-> session_id,
      room_id |-> room_id,
      speaker |-> speaker,
      participants |-> participants,
      audio_buffer |-> <<>>,
      vad |-> NewVAD,
      primary_strategy |-> CHUNK_BASED,
      chunks_processed |-> 0,
      silence_skipped |-> 0,
      sentences_completed |-> 0 ]

\* ------------------------------------------------------------------------
\* The room cache: get_or_create_stt / _translation / _tts
\* ------------------------------------------------------------------------
\* A store maps keys to the values produced for them. A producer result is a
\* record with a field raised; a result that raised is a failed produce.

EmptyStore == [k \in {} |-> 0]

\* buckets of the content digest of the PCM bytes
HashBuckets == 2

\* the content ids of the pieces lo..hi of audio, summed by halves
RECURSIVE IdSum(_, _, _)
IdSum(audio, lo, hi) ==
    IF lo > hi THEN 0
    ELSE IF lo = hi THEN audio[lo].id
    ELSE LET mid == (lo + hi) \div 2
         IN  IdSum(audio, lo, mid) + IdSum(audio, mid + 1, hi)

\* hash(audio bytes): a digest, equal for equal bytes
AudioHash(audio) ==
    [a \in {audio} |->
       (IdSum(a, 1, Len(a)) + ByteLen(a)) % HashBuckets][audio]

\* the STT key with a plausible slip: the speaker is left out
SttKey_without_speaker(room_id, speaker_id, audio) ==
    <<room_id, "", AudioHash(audio)>>

SttKey(room_id, speaker_id, audio) == <<room_id, speaker_id, AudioHash(audio)>>
MtKey(room_id, text, source_lang, target_lang) ==
    <<room_id, text, source_lang, target_lang>>
TtsKey(room_id, text, target_lang) == <<room_id, text, target_lang>>

\* the per-key lock, with a plausible slip: nobody waits
CanEnter_unlocked(locks, key) == TRUE

\* the per-key lock: a caller goes on when nobody holds the lock of its key
CanEnter(locks, key) == IF key \in DOMAIN locks THEN locks[key] = 0 ELSE TRUE

\* what a store holds after a produce for key ended with result r, with a
\* plausible slip: the failure is stored like a value
StoreAfter_cache_failure(store, key, r) == (key :> r) @@ store

\* a failed produce is not cached
StoreAfter(store, key, r) ==
    IF r.raised THEN store ELSE (key :> r) @@ store

\* get_or_create run by one caller with nobody else at the key: every way it
\* can end, given the results the producer can have. A cached value is
\* returned without running the producer; a failure reaches the caller.
GetOrCreate(store, key, results) ==
    IF key \in DOMAIN store
    THEN { [store |-> store, value |-> store[key], cached |-> TRUE,
            raised |-> store[key].raised, produced |-> FALSE] }
    ELSE { [store |-> StoreAfter(store, key, r), value |-> r,
            cached |-> FALSE, raised |-> r.raised, produced |-> TRUE] :
           r \in results }

\* ------------------------------------------------------------------------
\* services/conversation.py: _process_audio
\* ------------------------------------------------------------------------
\* B holds what the backends can answer: B.stt, B.mt and B.tts are sets of
\* producer results (records with raised; text and confidence for STT, text
\* for MT, audio_data and duration_ms for TTS). The pipeline is a generator:
\* an outcome is the messages it yielded, whether it then ended by an
\* exception, and the session and cache it leaves.

Raise(state, cache, msgs) ==
    [state |-> state, cache |-> cache, msgs |-> msgs, raised |-> TRUE]

Return(state, cache, msgs) ==
    [state |-> state, cache |-> cache, msgs |-> msgs, raised |-> FALSE]

SpeakerInfo(state) ==
    [ participant_id |-> state.speaker.participant_id,
      nickname |-> state.speaker.nickname,
      source_language |-> state.speaker.source_language ]

TranscriptResult(state, id, text, translations, is_partial, is_final, conf) ==
    [ type |-> "transcript",
      session_id |-> state.session_id,
      room_id |-> state.room_id,
      id |-> id,
      speaker |-> SpeakerInfo(state),
      original_text |-> text,
      original_language |-> state.speaker.source_language,
      translations |-> translations,
      is_partial |-> is_partial,
      is_final |-> is_final,
      confidence |-> conf ]

AudioResult(state, id, translation, tts) ==
    [ type |-> "audio",
      session_id |-> state.session_id,
      room_id |-> state.room_id,
      transcript_id |-> id,
      target_language |-> translation.target_language,
      target_participant_ids |-> translation.target_participant_ids,
      audio_data |-> tts.audio_data,
      format |-> "mp3",
      sample_rate |-> 24000,
      duration_ms |-> tts.duration_ms,
      speaker_participant_id |-> state.speaker.participant_id ]

\* every order in which a loop can visit the members of a set
RECURSIVE Orders(_)
Orders(S) ==
    IF S = {} THEN { <<>> }
    ELSE UNION { { <<x>> \o rest : rest \in Orders(S \ {x}) } : x \in S }

\* the translation loop (lines 331-354) over the targets still to visit:
\* the cache, the entries collected, and whether a producer raised
RECURSIVE TranslateLoop(_, _, _, _, _, _)
TranslateLoop(state, cache, text, todo, B, translations) ==
    IF todo = <<>>
    THEN { [cache |-> cache, translations |-> translations, raised |-> FALSE] }
    ELSE LET target_lang == Head(todo)
             key == MtKey(state.room_id, text, state.speaker.source_language,
                          target_lang)
         IN  UNION {
               IF o.raised
               THEN { [cache |-> [cache EXCEPT !.mt = o.store],
                       translations |-> translations, raised |-> TRUE] }
               ELSE TranslateLoop(
                      state, [cache EXCEPT !.mt = o.store], text, Tail(todo), B,
                      IF o.value.text # <<>>
                      THEN Append(translations,
                             [ target_language |-> target_lang,
                               translated_text |-> o.value.text,
                               target_participant_ids |->
                                 get_participants_by_target_language(
                                   state, target_lang) ])
                      ELSE translations)
               : o \in GetOrCreate(cache.mt, key, B.mt) }

\* the TTS loop (lines 387-432) over the translations still to visit:
\* the cache, the messages yielded, and whether a producer raised
RECURSIVE TtsLoop(_, _, _, _, _, _)
TtsLoop(state, cache, id, todo, B, msgs) ==
    IF todo = <<>>
    THEN { [cache |-> cache, msgs |-> msgs, raised |-> FALSE] }
    ELSE LET translation == Head(todo)
             translated_text == translation.translated_text
             key == TtsKey(state.room_id, translated_text,
                           translation.target_language)
         IN  IF \/ Len(Strip(translated_text)) < MIN_TTS_TEXT_LENGTH
                \/ IsFiller(translated_text)
             THEN TtsLoop(state, cache, id, Tail(todo), B, msgs)
             ELSE UNION {
                    IF o.raised
                    THEN { [cache |-> [cache EXCEPT !.tts = o.store],
                            msgs |-> msgs, raised |-> TRUE] }
                    ELSE TtsLoop(
                           state, [cache EXCEPT !.tts = o.store], id,
                           Tail(todo), B,
                           IF o.value.audio_data # <<>>
                           THEN Append(msgs,
                                  AudioResult(state, id, translation, o.value))
                           ELSE msgs)
                    : o \in GetOrCreate(cache.tts, key, B.tts) }

\* lines 300-443: translation, the transcript, TTS
TranslateAndSpeak(state, cache, text, conf, is_final, B, id) ==
    IF Len(Strip(text)) <= 1
    THEN { Return(state, cache,
             << TranscriptResult(state, id, text, <<>>, FALSE, TRUE, conf) >>) }
    ELSE UNION { UNION {
           IF tr.raised \/ "total_translation_latency_ms" \notin SessionStateFields
           THEN { Raise(state, tr.cache, <<>>) }
           ELSE LET transcript ==
                      TranscriptResult(state, id, text, tr.translations,
                                       ~is_final, is_final, conf)
                IN  { IF sp.raised \/ "total_tts_latency_ms" \notin SessionStateFields
                      THEN Raise(state, sp.cache, sp.msgs)
                      ELSE Return(state, sp.cache, sp.msgs)
                      : sp \in TtsLoop(state, tr.cache, id, tr.translations,
                                       B, <<transcript>>) }
           : tr \in TranslateLoop(state, cache, text, order, B, <<>>) }
         : order \in Orders(get_target_languages(state)) }

\* lines 262-298: what follows a returned STT stage. The statement
\*   state.total_stt_latency_ms += stt_latency
\* reads an attribute of the session and raises AttributeError when the
\* SessionState has none of that name.
AfterStt(state, cache, text, conf, is_final, B, ids) ==
    IF "total_stt_latency_ms" \notin SessionStateFields
    THEN { Raise(state, cache, <<>>) }
    ELSE IF text = <<>>
    THEN { Return(state, cache, <<>>) }
    ELSE IF IsFiller(text)
    THEN { Return(state, cache,
             << TranscriptResult(state, id, text, <<>>, FALSE, TRUE, conf) >>)
           : id \in ids }
    ELSE UNION { TranslateAndSpeak(state, cache, text, conf, is_final, B, id)
                 : id \in ids }

\* lines 243-245, with a plausible slip: is_final is not counted
counted_chunks_only(state, is_final) ==
    [state EXCEPT !.chunks_processed = @ + 1]

\* lines 243-245: the counters, before the STT stage
counted(state, is_final) ==
    [state EXCEPT !.chunks_processed = @ + 1,
                  !.sentences_completed = IF is_final THEN @ + 1 ELSE @]

\* _process_audio(state, audio_bytes, is_final): every outcome, with the
\* transcript id str(uuid.uuid4())[:8] drawn from ids
_process_audio(state, cache, audio_bytes, is_final, B, ids) ==
    UNION { UNION {
      UNION {
        IF o.raised
        THEN { Raise(s1, [cache EXCEPT !.stt = o.store], <<>>) }
        ELSE AfterStt(s1, [cache EXCEPT !.stt = o.store], o.value.text,
                      o.value.confidence, is_final, B, ids)
        : o \in GetOrCreate(cache.stt, key, B.stt) }
      : key \in { SttKey(s1.room_id, s1.speaker.participant_id, audio_bytes) } }
      : s1 \in { counted(state, is_final) } }

\* ------------------------------------------------------------------------
\* State
\* ------------------------------------------------------------------------

VARIABLES
    heap,        \* the SessionState objects made so far, by object number
    sessions,    \* self.sessions: session id -> object number, 0 when absent
    handlers,    \* per stream, the StreamChat call: pc, session_state,
                 \* current_session_id, and out, the messages yielded
    room_cache,  \* self.models.room_cache: the stt, mt and tts stores
    fed,         \* per object, the bytes appended to audio_buffer since the
                 \* last drain (history)
    last,        \* what the last handled message did (history)
    vad,         \* a VADProcessor driven on its own
    vad_ret,     \* what the last call on it was and returned (history)
    clients,     \* pipeline invocations at their STT stage: pc, key, result
    key_lock,    \* the room cache's per-key locks: key -> holder, 0 when free
    stt_runs,    \* per key, the results of the runs of transcribe_fn that
                 \* ended, in order (history)
    topo,        \* the last call of a LanguageTopology method and its result
    rpc,         \* the last UpdateParticipantSettings call: request, response
                 \* and the sessions it updated (history)
    created_by,  \* per SessionState object, the stream whose session_init
                 \* constructed it (history)
    speech_seen, \* per SessionState object, whether the VAD has found speech
                 \* in one of its audio chunks (history)
    roster_ret,  \* the last call of get_participants_by_target_language: the
                 \* roster it read, its argument and what it returned
    running      \* a re-sent session_init and an UpdateParticipantSettings
                 \* call that run statement by statement: where each is, and
                 \* its local values

vars == << heap, sessions, handlers, room_cache, fed, last, vad, vad_ret,
           clients, key_lock, stt_runs, topo, rpc, created_by, speech_seen,
           roster_ret, running >>

\* the variables the stream handler, the VAD and the cache leave alone
aux == << topo, rpc, created_by, speech_seen, roster_ret, running >>

NoTopo == [op |-> "none", source_lang |-> "", target_lang |-> "", ret |-> ""]

NoRpc ==
    [ op |-> "none", room_id |-> "", participant_id |-> "",
      target_language |-> "", translation_enabled |-> FALSE,
      success |-> FALSE, message |-> "", updated |-> {} ]

NotRunning ==
    [ init |-> [ pc |-> "idle", h |-> "", obj |-> 0,
                 speaker |-> [ participant_id |-> "", nickname |-> "",
                               source_language |-> "" ],
                 source_lang |-> "", strategy |-> "" ],
      update |-> [ pc |-> "idle", room_id |-> "", participant_id |-> "",
                   target_language |-> "", translation_enabled |-> FALSE,
                   updated |-> {}, todo |-> {}, session |-> 0,
                   source_lang |-> "", strategy |-> "" ],
      concurrent |-> FALSE ]

NoRosterCall == [op |-> "none", participants |-> <<>>, target_lang |-> "", ret |-> <<>>]

NoSession == 0
None == "<None>"

\* Python truth of a session id
Truthy(id) == id # None /\ id # ""

NewHandler ==
    [pc |-> "open", session_state |-> NoSession, current_session_id |-> None,
     out |-> <<>>]

NoLast ==
    [ op |-> "none", h |-> "", obj |-> NoSession, has_speech |-> FALSE,
      is_sentence_end |-> FALSE, buffered_bytes |-> 0, reason |-> "",
      vad_reset |-> FALSE, process_bytes |-> <<>>, invoked |-> <<>>,
      since_drain |-> <<>>, yielded |-> <<>> ]

EmptyCache == [stt |-> EmptyStore, mt |-> EmptyStore, tts |-> EmptyStore]

\* ------------------------------------------------------------------------
\* services/conversation.py: StreamChat
\* ------------------------------------------------------------------------

\* int(Config.BYTES_PER_SECOND * 0.5), line 141
min_speech_bytes == (BYTES_PER_SECOND * 5) \div 10

\* line 190, with a plausible slip: the threshold of line 141
min_final_bytes_half_second == (BYTES_PER_SECOND * 5) \div 10

\* int(Config.BYTES_PER_SECOND * 0.3), line 190
min_final_bytes == (BYTES_PER_SECOND * 3) \div 10

\* line 142, with a plausible slip: the cap of the chunk strategy for all
max_buffer_bytes_chunk(state) == CHUNK_BYTES

\* line 142: the cap does not look at the session
max_buffer_bytes(state) == SENTENCE_MAX_BYTES

\* lines 144-147, with a plausible slip: the raw chunk is appended
appended_speech_raw(has_sp, audio_chunk) ==
    IF has_sp THEN audio_chunk ELSE <<>>

\* lines 144-147, with a plausible slip: the speech frames of every chunk
\* are appended
appended_speech_of_any_chunk(has_sp, audio_chunk) == filter_speech(audio_chunk)

\* lines 144-147: what is appended to audio_buffer for a chunk
appended_speech(has_sp, audio_chunk) ==
    IF has_sp THEN filter_speech(audio_chunk) ELSE <<>>

\* lines 149-157, with a plausible slip: sentence_end without the length test
process_reason_any_length(is_sentence_end, buffer_bytes, max_bytes) ==
    IF is_sentence_end THEN "sentence_end"
    ELSE IF buffer_bytes >= max_bytes THEN "buffer_full"
    ELSE ""

\* lines 149-157: process_reason, "" when should_process stays False
process_reason(is_sentence_end, buffer_bytes, max_bytes) ==
    IF is_sentence_end /\ buffer_bytes >= min_speech_bytes THEN "sentence_end"
    ELSE IF buffer_bytes >= max_bytes THEN "buffer_full"
    ELSE ""

\* lines 162-163, with a plausible slip: reset on every drain
resets_vad_always(reason) == reason # ""

\* lines 162-163: whether a drain with this reason calls vad.reset()
resets_vad(reason) == reason = "buffer_full"

\* the VAD after a drain
vad_after_drain(v, reason) == IF resets_vad(reason) THEN reset(v) ELSE v

\* lines 160-161, with a plausible slip: the buffer is not cleared
buffer_after_drain_kept(buffer) == buffer

\* lines 160-161: audio_buffer.clear()
buffer_after_drain(buffer) == <<>>

\* the READY response of lines 109-124
SessionStatus(state, session_id, room_id, target_lang) ==
    [ type |-> "status",
      session_id |-> session_id,
      room_id |-> room_id,
      status |-> "READY",
      source_language |-> state.speaker.source_language,
      primary_target_language |-> target_lang,
      strategy |-> IF state.primary_strategy = CHUNK_BASED
                   THEN CHUNK_BASED ELSE SENTENCE_BASED ]

\* line 117, with a plausible slip: the language of the first participant
FirstTargets_first_participant(state) ==
    IF state.participants = <<>> THEN {""}
    ELSE { state.participants[1].target_language }

\* list(target_langs)[0] if target_langs else ""
FirstTargets(state) ==
    IF get_target_languages(state) = {} THEN {""}
    ELSE get_target_languages(state)

\* lines 64-66, with a plausible slip: the session starts over
speaker_update_fresh(existing_session, speaker) ==
    determine_primary_strategy(
      [existing_session EXCEPT !.speaker = speaker, !.audio_buffer = <<>>,
                               !.vad = NewVAD])

\* lines 64-66: the existing session gets the speaker of the request
speaker_update(existing_session, speaker) ==
    determine_primary_strategy([existing_session EXCEPT !.speaker = speaker])

\* payload session_init, lines 48-124
SessionInit(h, session_id, room_id, init) ==
    /\ handlers[h].pc = "open"
    /\ LET existing_session == sessions[session_id]
       IN  IF existing_session # NoSession
           THEN /\ heap' = [heap EXCEPT ![existing_session] =
                              speaker_update(@, init.speaker)]
                /\ handlers' = [handlers EXCEPT
                                  ![h].current_session_id = session_id,
                                  ![h].session_state = existing_session]
                /\ last' = [NoLast EXCEPT !.op = "speaker_update", !.h = h,
                                          !.obj = existing_session]
                /\ UNCHANGED << sessions, fed, created_by, speech_seen >>
           ELSE LET session_state ==
                      determine_primary_strategy(
                        NewSessionState(session_id, room_id, init.speaker,
                          MakeParticipants(<<>>, init.participants)))
                    obj == Len(heap) + 1
                IN  /\ heap' = Append(heap, session_state)
                    /\ fed' = Append(fed, <<>>)
                    /\ created_by' = Append(created_by, h)
                    /\ speech_seen' = Append(speech_seen, FALSE)
                    /\ sessions' = [sessions EXCEPT ![session_id] = obj]
                    /\ \E target_lang \in FirstTargets(session_state) :
                         LET ready == SessionStatus(session_state, session_id,
                                                    room_id, target_lang)
                         IN  /\ handlers' = [handlers EXCEPT
                                   ![h].current_session_id = session_id,
                                   ![h].session_state = obj,
                                   ![h].out = Append(@, ready)]
                             /\ last' = [NoLast EXCEPT !.op = "session_init",
                                           !.h = h, !.obj = obj,
                                           !.yielded = <<ready>>]
    /\ UNCHANGED << topo, rpc, roster_ret, running, room_cache, vad, vad_ret, clients,
                    key_lock, stt_runs >>

\* lines 171-183, with a plausible slip: no except clause, an exception of the
\* pipeline leaves the loop
RunPipeline_uncaught(h, hrec, obj, state, process_bytes, B, ids, lastrec) ==
    \E o \in _process_audio(state, room_cache, process_bytes, TRUE, B, ids) :
       /\ heap' = [heap EXCEPT ![obj] = o.state]
       /\ room_cache' = o.cache
       /\ handlers' = [handlers EXCEPT ![h] =
                         [hrec EXCEPT !.out = @ \o o.msgs,
                                      !.pc = IF o.raised THEN "closed" ELSE @]]
       /\ last' = [lastrec EXCEPT
                     !.invoked = << [audio_bytes |-> process_bytes,
                                     is_final |-> TRUE,
                                     raised |-> o.raised] >>,
                     !.yielded = o.msgs]

\* the try of lines 171-183 and 195-199 around the pipeline: the messages
\* yielded reach the stream, an exception is logged and goes no further.
\* hrec is the handler and lastrec the record of the message so far.
RunPipeline(h, hrec, obj, state, process_bytes, B, ids, lastrec) ==
    \E o \in _process_audio(state, room_cache, process_bytes, TRUE, B, ids) :
       /\ heap' = [heap EXCEPT ![obj] = o.state]
       /\ room_cache' = o.cache
       /\ handlers' = [handlers EXCEPT ![h] = [hrec EXCEPT !.out = @ \o o.msgs]]
       /\ last' = [lastrec EXCEPT
                     !.invoked = << [audio_bytes |-> process_bytes,
                                     is_final |-> TRUE,
                                     raised |-> o.raised] >>,
                     !.yielded = o.msgs]

\* payload audio_chunk with a session, lines 127-183
AudioChunk(h, session_id, audio_chunk, B, ids) ==
    /\ handlers[h].pc = "open"
    /\ handlers[h].session_state # NoSession
    /\ LET hrec == [handlers[h] EXCEPT !.current_session_id = session_id]
           obj == handlers[h].session_state
           state == heap[obj]
       IN  \E r \in { process_chunk(state.vad, audio_chunk) } :
           \E speech_audio \in { appended_speech(r.has_speech, audio_chunk) } :
           \E audio_buffer \in { state.audio_buffer \o speech_audio } :
           \E reason \in { process_reason(r.is_sentence_end,
                                          ByteLen(audio_buffer),
                                          max_buffer_bytes(state)) } :
           LET lastrec == [NoLast EXCEPT
                             !.op = "audio_chunk", !.h = h, !.obj = obj,
                             !.has_speech = r.has_speech,
                             !.is_sentence_end = r.is_sentence_end,
                             !.buffered_bytes = ByteLen(audio_buffer),
                             !.reason = reason,
                             !.vad_reset = resets_vad(reason),
                             !.since_drain =
                                IF reason # "" THEN fed[obj] \o speech_audio
                                ELSE <<>>]
           IN  \* the client stops sending once the counters reach their bounds
               /\ state.chunks_processed < MaxDrains
               /\ r.has_speech => state.vad.speech_frames < MaxSpeechChunks
               /\ speech_seen' = [speech_seen EXCEPT ![obj] = @ \/ r.has_speech]
               /\ IF reason # ""
                  THEN /\ fed' = [fed EXCEPT ![obj] = <<>>]
                       /\ RunPipeline(h, hrec, obj,
                            [state EXCEPT
                               !.vad = vad_after_drain(r.vad, reason),
                               !.audio_buffer =
                                  buffer_after_drain(audio_buffer)],
                            audio_buffer, B, ids,
                            [lastrec EXCEPT !.process_bytes = audio_buffer])
                  ELSE /\ fed' = [fed EXCEPT ![obj] = @ \o speech_audio]
                       /\ heap' = [heap EXCEPT
                                     ![obj].vad = r.vad,
                                     ![obj].audio_buffer = audio_buffer]
                       /\ handlers' = [handlers EXCEPT ![h] = hrec]
                       /\ last' = lastrec
                       /\ UNCHANGED room_cache
    /\ UNCHANGED << topo, rpc, created_by, roster_ret, running, sessions, vad, vad_ret,
                    clients, key_lock, stt_runs >>

\* lines 203-205 and 226-228: self.sessions.pop(current_session_id, None)
PopSession(regs, current_session_id) ==
    IF Truthy(current_session_id) /\ current_session_id \in DOMAIN regs
    THEN [regs EXCEPT ![current_session_id] = NoSession]
    ELSE regs

\* payload session_end, lines 186-213, and the finally of lines 225-229
SessionEnd(h, session_id, B, ids) ==
    /\ handlers[h].pc = "open"
    /\ LET hrec == [handlers[h] EXCEPT !.current_session_id = session_id,
                                       !.pc = "closed"]
           obj == handlers[h].session_state
           lastrec == [NoLast EXCEPT !.op = "session_end", !.h = h,
                                     !.obj = obj,
                                     !.vad_reset = obj # NoSession]
       IN  /\ sessions' = PopSession(PopSession(sessions, session_id),
                                     session_id)
           /\ IF obj = NoSession
              THEN /\ handlers' = [handlers EXCEPT ![h] = hrec]
                   /\ last' = lastrec
                   /\ UNCHANGED << heap, fed, room_cache >>
              ELSE LET state == [heap[obj] EXCEPT !.vad = reset(@)]
                       audio_buffer == state.audio_buffer
                       rec == [lastrec EXCEPT
                                 !.buffered_bytes = ByteLen(audio_buffer),
                                 !.since_drain = fed[obj]]
                   IN  /\ fed' = [fed EXCEPT ![obj] = <<>>]
                       /\ IF ByteLen(audio_buffer) >= min_final_bytes
                          THEN RunPipeline(h, hrec, obj,
                                 [state EXCEPT !.audio_buffer =
                                    buffer_after_drain(audio_buffer)],
                                 audio_buffer, B, ids,
                                 [rec EXCEPT !.reason = "session_end",
                                             !.process_bytes = audio_buffer])
                          ELSE /\ heap' = [heap EXCEPT ![obj] =
                                             [state EXCEPT !.audio_buffer = <<>>]]
                               /\ handlers' = [handlers EXCEPT ![h] = hrec]
                               /\ last' = rec
                               /\ UNCHANGED room_cache
    /\ UNCHANGED << aux, vad, vad_ret, clients, key_lock, stt_runs >>

\* lines 41-47 and 127, with a plausible slip: a message without a branch
\* ends the loop
Ignored_leaves_loop(h, session_id, payload_type) ==
    /\ handlers[h].pc = "open"
    /\ payload_type \notin {"session_init", "session_end"}
    /\ payload_type = "audio_chunk" => handlers[h].session_state = NoSession
    /\ handlers' = [handlers EXCEPT ![h].current_session_id = session_id,
                                    ![h].pc = "closed"]
    /\ UNCHANGED << aux, heap, sessions, room_cache, fed, last, vad, vad_ret,
                    clients, key_lock, stt_runs >>

\* a message the loop has no branch for: an audio_chunk before any
\* session_init, or no payload set (lines 41-47, 127)
Ignored(h, session_id, payload_type) ==
    /\ handlers[h].pc = "open"
    /\ payload_type \notin {"session_init", "session_end"}
    /\ payload_type = "audio_chunk" => handlers[h].session_state = NoSession
    /\ handlers' = [handlers EXCEPT ![h].current_session_id = session_id]
    /\ UNCHANGED << aux, heap, sessions, room_cache, fed, last, vad, vad_ret,
                    clients, key_lock, stt_runs >>

\* the request iterator ends: the loop is left, then the finally (225-229)
StreamClosed(h) ==
    /\ handlers[h].pc = "open"
    /\ handlers' = [handlers EXCEPT ![h].pc = "closed"]
    /\ sessions' = PopSession(sessions, handlers[h].current_session_id)
    /\ last' = [NoLast EXCEPT !.op = "closed", !.h = h,
                              !.obj = handlers[h].session_state]
    /\ UNCHANGED << aux, heap, room_cache, fed, vad, vad_ret, clients, key_lock,
                    stt_runs >>

ErrorResponse(current_session_id) ==
    [ type |-> "error",
      session_id |-> IF Truthy(current_session_id) THEN current_session_id
                     ELSE "",
      code |-> "STREAM_ERROR" ]

\* the request iterator raises: the except of lines 215-223, then the finally
StreamError(h) ==
    /\ handlers[h].pc = "open"
    /\ LET error == ErrorResponse(handlers[h].current_session_id)
       IN  /\ handlers' = [handlers EXCEPT ![h].pc = "closed",
                                           ![h].out = Append(@, error)]
           /\ last' = [NoLast EXCEPT !.op = "error", !.h = h,
                                     !.obj = handlers[h].session_state,
                                     !.yielded = <<error>>]
    /\ sessions' = PopSession(sessions, handlers[h].current_session_id)
    /\ UNCHANGED << aux, heap, room_cache, fed, vad, vad_ret, clients, key_lock,
                    stt_runs >>

\* ------------------------------------------------------------------------
\* Inputs
\* ------------------------------------------------------------------------

Frame(id, class, rms) == [id |-> id, n |-> frame_size, vad |-> class, rms |-> rms]
Rest(id, n) == [id |-> id, n |-> n, vad |-> "none", rms |-> 0]

\* less than one frame
Tiny == << Rest(90, 500) >>
\* two frames of silence and a rest
Silence == << Frame(91, "silence", 3), Frame(92, "silence", 2), Rest(93, 100) >>
\* one frame of speech in four: below the 30% the VAD asks for
LowRatio == << Frame(94, "speech", 900), Frame(95, "silence", 3),
               Frame(96, "silence", 3), Frame(97, "error", 29) >>
\* one frame of speech in three, the classifier failing on the first and on
\* the last frame
Speech1 == << Frame(1, "error", 30), Frame(2, "silence", 4),
              Frame(3, "error", 29), Rest(4, 959) >>
\* 83 frames of speech: one frame short of SENTENCE_MAX_BYTES
Speech83 == [i \in 1..83 |-> Frame(100 + i, "speech", 600)]

ChunkSamples == { Tiny, Silence, LowRatio, Speech1, Speech83 }

Speaker(participant_id, nickname, source_language) ==
    [ participant_id |-> participant_id, nickname |-> nickname,
      source_language |-> source_language ]

Participant(participant_id, target_language, translation_enabled) ==
    [ participant_id |-> participant_id, target_language |-> target_language,
      translation_enabled |-> translation_enabled ]

\* a Korean speaker heard in Japanese (one word-order family), and heard in
\* Japanese and English (two families)
SessionInits ==
    { [ speaker |-> Speaker("u1", "Kim", "ko"),
        participants |-> << Participant("p1", "ja", TRUE) >> ],
      [ speaker |-> Speaker("u1", "Kim", "ko"),
        participants |-> << Participant("p1", "ja", TRUE),
                            Participant("p2", "en", TRUE) >> ] }

SttResult(text, confidence) ==
    [raised |-> FALSE, text |-> text, confidence |-> confidence]
MtResult(text) == [raised |-> FALSE, text |-> text]
TtsResult(audio_data, duration_ms) ==
    [raised |-> FALSE, audio_data |-> audio_data, duration_ms |-> duration_ms]
Failed == [raised |-> TRUE]

Backends ==
    [ stt |-> { SttResult(<<"h", "i", "!">>, 95), Failed },
      mt  |-> { MtResult(<<"H", "e", "y">>), MtResult(<<>>), Failed },
      tts |-> { TtsResult(<<"mp3">>, 400), TtsResult(<<>>, 0), Failed } ]

TranscriptIds == {"0a1b2c3d", "4e5f6a7b"}

Streams == {"h1"}
SessionIds == {"s1"}
RoomIds == {"r1"}

\* the pipeline invocations that meet at the room cache
Callers == 1..MaxCalls

\* what transcribe_fn can answer
SttResults == Backends.stt \cup { SttResult(<<"h", "e", "y">>, 80) }

\* the audio the invocations carry
CallAudio == { Speech1, LowRatio }

\* ------------------------------------------------------------------------
\* One stream, one session id
\* ------------------------------------------------------------------------

\* a VADProcessor nothing was called on yet. entered tells whether the VAD
\* went from Idle to Speaking since the last reported sentence end or reset,
\* entered_before the same before the last call; quiet counts the chunks
\* without speech in a row, the last one included, given to a Speaking VAD;
\* audio_bytes is the argument of the last call.
NoCall ==
    [ op |-> "new", before |-> NewVAD, has_speech |-> FALSE,
      is_sentence_end |-> FALSE, entered |-> FALSE, entered_before |-> FALSE,
      quiet |-> 0, audio_bytes |-> <<>> ]

\* a pipeline invocation that has not reached its STT stage
NewCaller ==
    [ pc |-> "idle", room_id |-> "", speaker_id |-> "", audio |-> <<>>,
      key |-> <<>>, with |-> {}, runs_before |-> 0, ran |-> FALSE,
      cached |-> FALSE, value |-> Failed ]

Init ==
    /\ heap = <<>>
    /\ sessions = [id \in SessionIds |-> NoSession]
    /\ handlers = [h \in Streams |-> NewHandler]
    /\ room_cache = EmptyCache
    /\ fed = <<>>
    /\ last = NoLast
    /\ vad = NewVAD
    /\ vad_ret = NoCall
    /\ clients = [c \in Callers |-> NewCaller]
    /\ key_lock = EmptyStore
    /\ stt_runs = EmptyStore
    /\ topo = NoTopo
    /\ rpc = NoRpc
    /\ created_by = <<>>
    /\ speech_seen = <<>>
    /\ roster_ret = NoRosterCall
    /\ running = NotRunning

Next ==
    \E h \in Streams, session_id \in SessionIds :
       \/ \E room_id \in RoomIds, init \in SessionInits :
             SessionInit(h, session_id, room_id, init)
       \/ \E audio_chunk \in ChunkSamples :
             AudioChunk(h, session_id, audio_chunk, Backends, TranscriptIds)
       \/ SessionEnd(h, session_id, Backends, TranscriptIds)
       \/ \E payload_type \in {"audio_chunk", "none"} :
             Ignored(h, session_id, payload_type)
       \/ StreamClosed(h)
       \/ StreamError(h)

Spec == Init /\ [][Next]_vars

\* ------------------------------------------------------------------------
\* Properties of the stream handler
\* ------------------------------------------------------------------------

Idle == [is_speaking |-> FALSE, silence_frames |-> 0, speech_frames |-> 0]

\* C2: handling an audio_chunk drains with reason sentence_end exactly when
\* the VAD reported sentence-end for the chunk and the buffer holds at least
\* 16000 bytes (500 ms); a sentence-end with fewer bytes invokes no pipeline
\* and leaves the buffered bytes in the session buffer.
C2_SentenceEndDrain ==
    last.op = "audio_chunk" =>
       /\ last.reason = "sentence_end"
            <=> (last.is_sentence_end /\ last.buffered_bytes >= 16000)
       /\ (last.is_sentence_end /\ last.buffered_bytes < 16000) =>
             /\ last.invoked = <<>>
             /\ last.reason = ""
             /\ heap[last.obj].audio_buffer = fed[last.obj]
             /\ ByteLen(heap[last.obj].audio_buffer) = last.buffered_bytes

\* a sentence-end that drained at least 16000 bytes
C2_Witness ==
    /\ last.op = "audio_chunk" /\ last.reason = "sentence_end"
    /\ last.buffered_bytes >= 16000
    /\ Len(last.invoked) = 1

\* a sentence-end that found fewer than 16000 bytes and kept them
C2_WitnessKept ==
    /\ last.op = "audio_chunk" /\ last.is_sentence_end
    /\ last.buffered_bytes > 0 /\ last.buffered_bytes < 16000
    /\ heap[last.obj].audio_buffer # <<>>

\* C3: when the sentence_end rule does not fire, handling an audio_chunk
\* drains with reason buffer_full if and only if the buffer after appending
\* holds at least 80000 bytes; a buffer_full drain resets the VAD to Idle with
\* both counters zero, and a sentence_end drain does not call reset.
C3_BufferFullDrain ==
    last.op = "audio_chunk" =>
       /\ last.reason # "sentence_end" =>
             (last.reason = "buffer_full" <=> last.buffered_bytes >= 80000)
       /\ last.reason = "buffer_full" =>
             /\ last.vad_reset
             /\ heap[last.obj].vad = Idle
       /\ last.reason = "sentence_end" => ~last.vad_reset

\* a buffer_full drain at the first length a whole number of frames reaches
C3_Witness ==
    /\ last.op = "audio_chunk" /\ last.reason = "buffer_full"
    /\ last.buffered_bytes = 80640
    /\ Len(last.invoked) = 1

\* one frame below: 79680 bytes buffered and no drain
C3_WitnessBelow ==
    /\ last.op = "audio_chunk" /\ last.reason = ""
    /\ last.buffered_bytes = 79680

\* C4: the strategy of the session sets the cap of the buffer_full drain:
\* 48000 bytes (1500 ms) in a CHUNK_BASED session, 80000 bytes (2500 ms) in a
\* SENTENCE_BASED one.
C4_StrategyCap ==
    (last.op = "audio_chunk" /\ last.reason # "sentence_end") =>
       (last.reason = "buffer_full"
          <=> last.buffered_bytes >=
                 (IF heap[last.obj].primary_strategy = CHUNK_BASED
                  THEN 48000 ELSE 80000))

\* C5: session_end with a session: a buffer of at least 9600 bytes (300 ms)
\* goes to the pipeline once, whole and with is_final; a shorter one is
\* dropped without a pipeline invocation; either way the buffer is empty
\* afterwards, the session id of the request is no longer registered, and the
\* handler has left its loop.
C5_SessionEnd ==
    (last.op = "session_end" /\ last.obj # NoSession) =>
       /\ last.buffered_bytes >= 9600 =>
             /\ Len(last.invoked) = 1
             /\ last.invoked[1].is_final
             /\ last.invoked[1].audio_bytes = last.since_drain
             /\ ByteLen(last.invoked[1].audio_bytes) = last.buffered_bytes
       /\ last.buffered_bytes < 9600 => last.invoked = <<>>
       /\ heap[last.obj].audio_buffer = <<>>
       /\ sessions[handlers[last.h].current_session_id] = NoSession
       /\ handlers[last.h].pc = "closed"

\* C5, the rest: a handler that has left its loop handles nothing more
C5_NothingAfterEnd ==
    [][\A h \in DOMAIN handlers :
          handlers[h].pc = "closed" => handlers'[h] = handlers[h]]_vars

C5_WitnessDropped ==
    /\ last.op = "session_end" /\ last.obj # NoSession
    /\ last.buffered_bytes > 0 /\ last.buffered_bytes < 9600
    /\ last.invoked = <<>>

\* C6: at every drain the bytes handed to the pipeline are the bytes appended
\* to the session buffer since the previous drain, in order, each once, and
\* the buffer is empty right after the drain.
C6_DrainIsWhatWasAppended ==
    last.reason # "" =>
       /\ Len(last.invoked) = 1
       /\ last.invoked[1].audio_bytes = last.since_drain
       /\ last.process_bytes = last.since_drain
       /\ heap[last.obj].audio_buffer = <<>>
       /\ fed[last.obj] = <<>>

\* a second drain of a session, of more than one chunk
C6_Witness ==
    /\ last.reason # ""
    /\ heap[last.obj].chunks_processed = 2
    /\ Len(last.since_drain) = 84

\* ------------------------------------------------------------------------
\* audio/vad.py: a VADProcessor under any sequence of calls
\* ------------------------------------------------------------------------

\* vad.process_chunk(audio_bytes)
ProcessChunk(audio_bytes) ==
    \E r \in { process_chunk(vad, audio_bytes) } :
       /\ r.has_speech => vad.speech_frames < MaxVadChunks
       /\ vad' = r.vad
       /\ vad_ret' =
            [ op |-> "process_chunk", before |-> vad,
              has_speech |-> r.has_speech,
              is_sentence_end |-> r.is_sentence_end,
              entered |-> IF r.is_sentence_end THEN FALSE
                          ELSE vad_ret.entered
                               \/ (~vad.is_speaking /\ r.vad.is_speaking),
              entered_before |-> vad_ret.entered,
              quiet |-> IF r.has_speech \/ ~vad.is_speaking THEN 0
                        ELSE vad_ret.quiet + 1,
              audio_bytes |-> audio_bytes ]
       /\ UNCHANGED << aux, heap, sessions, handlers, room_cache, fed, last,
                       clients, key_lock, stt_runs >>

\* vad.reset()
Reset ==
    /\ vad' = reset(vad)
    /\ vad_ret' = [NoCall EXCEPT !.op = "reset", !.before = vad]
    /\ UNCHANGED << aux, heap, sessions, handlers, room_cache, fed, last,
                    clients, key_lock, stt_runs >>

NextVAD ==
    \/ \E audio_bytes \in ChunkSamples : ProcessChunk(audio_bytes)
    \/ Reset

SpecVAD == Init /\ [][NextVAD]_vars

\* C7: process_chunk returns is_sentence_end only when the VAD was Speaking
\* right before the call, and only when the VAD went from Idle to Speaking
\* since the previous reported sentence end, reset or construction.
C7_SentenceEndOnlyWhenSpeaking ==
    (vad_ret.op = "process_chunk" /\ vad_ret.is_sentence_end) =>
       /\ vad_ret.before.is_speaking
       /\ vad_ret.entered_before
       /\ ~vad_ret.has_speech
       /\ ~vad.is_speaking

\* a reported sentence end
C7_Witness ==
    /\ vad_ret.op = "process_chunk" /\ vad_ret.is_sentence_end
    /\ vad_ret.before.is_speaking

\* C8 as stated: max_silence_frames is 12, and a Speaking VAD reports the
\* sentence end on the 12th chunk without speech in a row, not earlier.
C8_TwelfthChunk ==
    (vad_ret.op = "process_chunk" /\ vad_ret.before.is_speaking) =>
       (vad_ret.is_sentence_end <=> (~vad_ret.has_speech /\ vad_ret.quiet = 12))

\* C8, amended: max_silence_frames is int(350 / 30) = 11, and a Speaking VAD
\* reports the sentence end on the 11th chunk without speech in a row, not
\* earlier.
C8_EleventhChunk ==
    /\ max_silence_frames = 11
    /\ (vad_ret.op = "process_chunk" /\ vad_ret.before.is_speaking) =>
          /\ vad_ret.is_sentence_end
               <=> (~vad_ret.has_speech /\ vad_ret.quiet = 11)
          /\ vad_ret.quiet <= 11

\* the sentence end reported on the 11th chunk without speech
C8_Witness ==
    /\ vad_ret.op = "process_chunk" /\ vad_ret.is_sentence_end
    /\ vad_ret.quiet = 11
    /\ vad_ret.before.silence_frames = 10

\* ------------------------------------------------------------------------
\* The room cache under concurrent pipeline invocations
\* ------------------------------------------------------------------------
\* Every invocation makes one call of get_or_create_stt. The call waits for
\* the lock of its key, returns the stored value when there is one, and
\* otherwise runs transcribe_fn while it holds the lock.

InFlight(c) == clients[c].pc \in {"waiting", "producing"}

RunsOf(key) == IF key \in DOMAIN stt_runs THEN stt_runs[key] ELSE <<>>

\* lines 255-260: the invocation reaches get_or_create_stt
CacheCall(c, room_id, speaker_id, audio_bytes) ==
    /\ clients[c].pc = "idle"
    /\ clients' =
         [clients EXCEPT ![c] =
            [@ EXCEPT !.pc = "waiting", !.room_id = room_id,
                      !.speaker_id = speaker_id, !.audio = audio_bytes,
                      !.key = SttKey(room_id, speaker_id, audio_bytes),
                      !.with = { d \in Callers : InFlight(d) }]]
    /\ UNCHANGED << aux, heap, sessions, handlers, room_cache, fed, last, vad,
                    vad_ret, key_lock, stt_runs >>

\* the call gets past the lock of its key: a stored value is returned, and
\* otherwise the caller holds the lock and transcribe_fn starts
CacheEnter(c) ==
    /\ clients[c].pc = "waiting"
    /\ CanEnter(key_lock, clients[c].key)
    /\ \E key \in { clients[c].key } :
          IF key \in DOMAIN room_cache.stt
          THEN \E o \in GetOrCreate(room_cache.stt, key, {}) :
                  /\ clients' =
                       [clients EXCEPT ![c] =
                          [@ EXCEPT !.pc = IF o.raised THEN "raised"
                                           ELSE "returned",
                                    !.runs_before = Len(RunsOf(key)),
                                    !.cached = o.cached, !.value = o.value]]
                  /\ UNCHANGED key_lock
          ELSE /\ clients' =
                    [clients EXCEPT ![c] =
                       [@ EXCEPT !.pc = "producing", !.ran = TRUE,
                                 !.runs_before = Len(RunsOf(key))]]
               /\ key_lock' = (key :> c) @@ key_lock
    /\ UNCHANGED << aux, heap, sessions, handlers, room_cache, fed, last, vad,
                    vad_ret, stt_runs >>

\* transcribe_fn ends with result r: the value is stored unless it failed,
\* the lock is given up, and the call returns or raises
CacheProduce(c, results) ==
    /\ clients[c].pc = "producing"
    /\ \E key \in { clients[c].key } :
       \E o \in GetOrCreate(room_cache.stt, key, results) :
          /\ o.produced
          /\ room_cache' = [room_cache EXCEPT !.stt = o.store]
          /\ stt_runs' = (key :> Append(RunsOf(key), o.value)) @@ stt_runs
          /\ key_lock' = [key_lock EXCEPT ![key] = 0]
          /\ clients' =
               [clients EXCEPT ![c] =
                  [@ EXCEPT !.pc = IF o.raised THEN "raised" ELSE "returned",
                            !.cached = o.cached, !.value = o.value]]
    /\ UNCHANGED << aux, heap, sessions, handlers, fed, last, vad, vad_ret >>

NextCache ==
    \E c \in Callers :
       \/ \E room_id \in RoomIds, audio_bytes \in CallAudio :
             CacheCall(c, room_id, "u1", audio_bytes)
       \/ CacheEnter(c)
       \/ CacheProduce(c, SttResults)

SpecCache == Init /\ [][NextCache]_vars

\* two invocations with the same room id, speaker id and audio bytes
SameRequest(c, d) ==
    /\ c # d
    /\ clients[c].pc # "idle" /\ clients[d].pc # "idle"
    /\ clients[c].room_id = clients[d].room_id
    /\ clients[c].speaker_id = clients[d].speaker_id
    /\ clients[c].audio = clients[d].audio

\* one of the two reached its STT stage while the other was in it
Overlapping(c, d) == c \in clients[d].with \/ d \in clients[c].with

C10_FailureNotCached ==
    /\ \A key \in DOMAIN room_cache.stt : ~room_cache.stt[key].raised
    /\ \A key \in DOMAIN stt_runs :
          (RunsOf(key) # <<>> /\ RunsOf(key)[Len(RunsOf(key))].raised
             /\ CanEnter(key_lock, key))
          => key \notin DOMAIN room_cache.stt
    /\ \A c \in Callers :
          clients[c].pc \in {"producing", "returned", "raised"} =>
             /\ clients[c].cached => ~clients[c].value.raised
             /\ (clients[c].runs_before > 0
                   /\ RunsOf(clients[c].key)[clients[c].runs_before].raised)
                => (clients[c].ran /\ ~clients[c].cached)

\* a call that came after a failed produce, ran the producer again and got a
\* value
C10_Witness ==
    \E c \in Callers :
       /\ clients[c].pc = "returned"
       /\ clients[c].runs_before = 1
       /\ RunsOf(clients[c].key)[1].raised
       /\ clients[c].ran /\ ~clients[c].cached

\* ------------------------------------------------------------------------
\* language/topology.py: LanguageTopology called with any pair of codes
\* ------------------------------------------------------------------------

\* the recognized codes, two codes no group lists, and the empty code
LanguageCodes ==
    SOV_LANGUAGES \cup SVO_LANGUAGES \cup VSO_LANGUAGES \cup {"vi", "xx", ""}

\* LanguageTopology.get_strategy(source_lang, target_lang)
GetStrategy(source_lang, target_lang) ==
    /\ topo' = [ op |-> "get_strategy", source_lang |-> source_lang,
                 target_lang |-> target_lang,
                 ret |-> get_strategy(source_lang, target_lang) ]
    /\ UNCHANGED << heap, sessions, handlers, room_cache, fed, last, vad,
                    vad_ret, clients, key_lock, stt_runs, rpc, created_by,
                    speech_seen, roster_ret, running >>

\* LanguageTopology.get_buffer_duration_ms(source_lang, target_lang)
GetBufferDurationMs(source_lang, target_lang) ==
    /\ topo' = [ op |-> "get_buffer_duration_ms", source_lang |-> source_lang,
                 target_lang |-> target_lang,
                 ret |-> get_buffer_duration_ms(source_lang, target_lang) ]
    /\ UNCHANGED << heap, sessions, handlers, room_cache, fed, last, vad,
                    vad_ret, clients, key_lock, stt_runs, rpc, created_by,
                    speech_seen, roster_ret, running >>

NextTopology ==
    \E source_lang \in LanguageCodes, target_lang \in LanguageCodes :
       \/ GetStrategy(source_lang, target_lang)
       \/ GetBufferDurationMs(source_lang, target_lang)

SpecTopology == Init /\ [][NextTopology]_vars

\* the word-order family of a code: SOV for ko, ja, tr, hi, bn; VSO for ar,
\* he; SVO for the eight SVO codes and for every code that is not recognized
Family(lang) ==
    IF lang \in {"ko", "ja", "tr", "hi", "bn"} THEN "SOV"
    ELSE IF lang \in {"ar", "he"} THEN "VSO"
    ELSE "SVO"

\* C11: for every pair of codes, recognized or not, get_strategy is
\* CHUNK_BASED exactly when the two families are equal, and
\* get_buffer_duration_ms is 1500 for a CHUNK_BASED pair and 2500 for a
\* SENTENCE_BASED one.
C11_StrategyByFamily ==
    /\ topo.op = "get_strategy" =>
          /\ topo.ret \in {CHUNK_BASED, SENTENCE_BASED}
          /\ topo.ret = CHUNK_BASED
               <=> Family(topo.source_lang) = Family(topo.target_lang)
    /\ topo.op = "get_buffer_duration_ms" =>
          topo.ret = IF Family(topo.source_lang) = Family(topo.target_lang)
                     THEN 1500 ELSE 2500

\* an unrecognized code against an SVO code: CHUNK_BASED
C11_Witness ==
    /\ topo.op = "get_strategy"
    /\ topo.source_lang = "xx" /\ topo.target_lang = "en"
    /\ topo.ret = CHUNK_BASED

\* ------------------------------------------------------------------------
\* services/conversation.py: UpdateParticipantSettings
\* ------------------------------------------------------------------------

\* the SessionState objects in self.sessions.values()
Registered(regs) == { regs[id] : id \in DOMAIN regs } \ {NoSession}

\* participant_id in session.participants
InRoster(s, participant_id) ==
    \E i \in 1..Len(s.participants) :
       s.participants[i].participant_id = participant_id

\* lines 454-458, with a plausible slip: the strategy is not recomputed
update_session_stale(s, participant_id, target_language, translation_enabled) ==
    [s EXCEPT !.participants =
       [i \in 1..Len(@) |->
          IF @[i].participant_id = participant_id
          THEN [@[i] EXCEPT !.target_language = target_language,
                            !.translation_enabled = translation_enabled]
          ELSE @[i]]]

\* lines 454-458: the body of the loop for one matching session
update_session(s, participant_id, target_language, translation_enabled) ==
    determine_primary_strategy(
      [s EXCEPT !.participants =
         [i \in 1..Len(@) |->
            IF @[i].participant_id = participant_id
            THEN [@[i] EXCEPT !.target_language = target_language,
                              !.translation_enabled = translation_enabled]
            ELSE @[i]]])

\* lines 450-458, with a plausible slip: the room of the session is not
\* compared
updated_sessions_any_room(objs, regs, room_id, participant_id) ==
    { o \in Registered(regs) : InRoster(objs[o], participant_id) }

\* lines 450-458: the sessions the loop updates
updated_sessions(objs, regs, room_id, participant_id) ==
    { o \in Registered(regs) :
        objs[o].room_id = room_id /\ InRoster(objs[o], participant_id) }

\* lines 460-463, with a plausible slip: success only when a value changed
settings_response_changed_only(objs, updated, after) ==
    [ success |-> \E o \in updated : after[o] # objs[o],
      message |-> IF \E o \in updated : after[o] # objs[o]
                  THEN "Settings updated" ELSE "Participant not found" ]

\* lines 460-463: ParticipantSettingsResponse
settings_response(objs, updated, after) ==
    [ success |-> updated # {},
      message |-> IF updated # {} THEN "Settings updated"
                  ELSE "Participant not found" ]

\* UpdateParticipantSettings on the objects objs and the registry regs: the
\* objects afterwards, the sessions updated and the response
update_participant_settings(objs, regs, room_id, participant_id, target_language, translation_enabled) ==
    LET updated == updated_sessions(objs, regs, room_id, participant_id)
        after == [o \in 1..Len(objs) |->
                    IF o \in updated
                    THEN update_session(objs[o], participant_id,
                                        target_language, translation_enabled)
                    ELSE objs[o]]
    IN  [ heap |-> after, updated |-> updated,
          response |-> settings_response(objs, updated, after) ]

UpdateParticipantSettings(room_id, participant_id, target_language, translation_enabled) ==
    /\ \E u \in { update_participant_settings(heap, sessions, room_id,
                    participant_id, target_language, translation_enabled) } :
          /\ heap' = u.heap
          /\ rpc' = [ op |-> "update", room_id |-> room_id,
                      participant_id |-> participant_id,
                      target_language |-> target_language,
                      translation_enabled |-> translation_enabled,
                      success |-> u.response.success,
                      message |-> u.response.message,
                      updated |-> u.updated ]
    /\ last' = [NoLast EXCEPT !.op = "update_settings"]
    /\ UNCHANGED << sessions, handlers, room_cache, fed, vad, vad_ret,
                    clients, key_lock, stt_runs, topo, created_by,
                    speech_seen, roster_ret, running >>

\* ------------------------------------------------------------------------
\* Two streams, two session ids, two rooms
\* ------------------------------------------------------------------------

RoomStreams == {"h1", "h2"}
RoomSessionIds == {"s1", "s2"}
RoomRoomIds == {"r1", "r2"}

\* a Korean speaker with one Japanese listener
RoomInit ==
    [ speaker |-> Speaker("u1", "Kim", "ko"),
      participants |-> << Participant("p1", "ja", TRUE) >> ]

\* that one; an English speaker with the same listener set to Korean,
\* disabled, and an Arabic listener; a Korean speaker whose listeners ask for
\* Korean or have translation off
RoomInits ==
    { RoomInit,
      [ speaker |-> Speaker("u2", "Ann", "en"),
        participants |-> << Participant("p1", "ko", FALSE),
                            Participant("p2", "ar", TRUE) >> ],
      [ speaker |-> Speaker("u3", "Lee", "ko"),
        participants |-> << Participant("p1", "ko", TRUE),
                            Participant("p2", "en", FALSE) >> ] }

RoomChunks == { Silence, Speech1 }

\* the session_init requests of the scenario
RoomInitRequests ==
    { [room_id |-> "r1", init |-> i] : i \in RoomInits }
      \cup { [room_id |-> "r2", init |-> RoomInit] }

\* the UpdateParticipantSettings requests of the scenario: p1 to English, p1
\* to Japanese with translation off, and a participant no roster has
RoomSettings ==
    { [participant_id |-> "p1", target_language |-> "en",
       translation_enabled |-> TRUE],
      [participant_id |-> "p1", target_language |-> "ja",
       translation_enabled |-> FALSE],
      [participant_id |-> "p3", target_language |-> "en",
       translation_enabled |-> TRUE] }

\* the servicer after construction, with the streams that will connect and
\* the session ids they will use
InitOf(streams, ids) ==
    /\ heap = <<>>
    /\ sessions = [id \in ids |-> NoSession]
    /\ handlers = [h \in streams |-> NewHandler]
    /\ room_cache = EmptyCache
    /\ fed = <<>>
    /\ last = NoLast
    /\ vad = NewVAD
    /\ vad_ret = NoCall
    /\ clients = [c \in Callers |-> NewCaller]
    /\ key_lock = EmptyStore
    /\ stt_runs = EmptyStore
    /\ topo = NoTopo
    /\ rpc = NoRpc
    /\ created_by = <<>>
    /\ speech_seen = <<>>
    /\ roster_ret = NoRosterCall
    /\ running = NotRunning

\* a session_init of the scenario: the streams create MaxSessions objects
RoomSessionInit(h, session_id, room_id, init) ==
    /\ sessions[session_id] = NoSession => Len(heap) < MaxSessions
    /\ SessionInit(h, session_id, room_id, init)

\* an audio_chunk of the scenario: MaxRoomChunks speech chunks are buffered
RoomAudioChunk(h, session_id, audio_chunk) ==
    /\ handlers[h].session_state # NoSession
    /\ Len(heap[handlers[h].session_state].audio_buffer) < MaxRoomChunks
    /\ AudioChunk(h, session_id, audio_chunk, Backends, TranscriptIds)

\* One stream with one session id in one of two rooms, and
\* UpdateParticipantSettings calls from outside

NextSettings ==
    \/ \E h \in Streams, session_id \in SessionIds :
          \/ \E req \in RoomInitRequests :
                RoomSessionInit(h, session_id, req.room_id, req.init)
          \/ \E audio_chunk \in RoomChunks :
                RoomAudioChunk(h, session_id, audio_chunk)
          \/ SessionEnd(h, session_id, Backends, TranscriptIds)
          \/ StreamClosed(h)
    \/ \E room_id \in RoomRoomIds, req \in RoomSettings :
          UpdateParticipantSettings(room_id, req.participant_id,
                                    req.target_language,
                                    req.translation_enabled)

SpecSettings == Init /\ [][NextSettings]_vars

\* Two streams that use two session ids in one room, every session_init with
\* the same speaker and roster

InitRoom == InitOf(RoomStreams, RoomSessionIds)

NextRoom ==
    \E h \in RoomStreams, session_id \in RoomSessionIds :
       \/ RoomSessionInit(h, session_id, "r1", RoomInit)
       \/ \E audio_chunk \in RoomChunks :
             RoomAudioChunk(h, session_id, audio_chunk)
       \/ SessionEnd(h, session_id, Backends, TranscriptIds)
       \/ \E payload_type \in {"audio_chunk", "none"} :
             Ignored(h, session_id, payload_type)
       \/ StreamClosed(h)
       \/ StreamError(h)

SpecRoom == InitRoom /\ [][NextRoom]_vars

\* ------------------------------------------------------------------------
\* Properties of sessions under session_init and UpdateParticipantSettings
\* ------------------------------------------------------------------------

\* the sessions the last completed session_init or UpdateParticipantSettings
\* worked on
Touched ==
    IF last.op \in {"session_init", "speaker_update"} THEN {last.obj}
    ELSE IF last.op = "update_settings" THEN rpc.updated
    ELSE {}

\* C12: after a completed session_init, new or re-sent, and after a completed
\* UpdateParticipantSettings, the stored primary strategy of the session is
\* SENTENCE_BASED exactly when some target language is of another word-order
\* family than the speaker's source language; with no target language it is
\* CHUNK_BASED.
C12_StrategyFollowsTargets ==
    \A o \in Touched :
       /\ heap[o].primary_strategy \in {CHUNK_BASED, SENTENCE_BASED}
       /\ heap[o].primary_strategy = SENTENCE_BASED
            <=> \E lang \in get_target_languages(heap[o]) :
                   Family(lang) # Family(heap[o].speaker.source_language)
       /\ get_target_languages(heap[o]) = {}
            => heap[o].primary_strategy = CHUNK_BASED

\* an UpdateParticipantSettings that turned a session to SENTENCE_BASED
C12_Witness ==
    /\ last.op = "update_settings"
    /\ \E o \in rpc.updated :
          /\ heap[o].primary_strategy = SENTENCE_BASED
          /\ get_target_languages(heap[o]) = {"en"}
          /\ heap[o].speaker.source_language = "ko"

\* a re-sent session_init that left a session without target language
C12_WitnessResent ==
    /\ last.op = "speaker_update"
    /\ get_target_languages(heap[last.obj]) = {}
    /\ heap[last.obj].primary_strategy = CHUNK_BASED

\* C13: UpdateParticipantSettings is idempotent: right after a call, the same
\* request applied once more leaves every session as it is (roster, primary
\* strategy, buffer, VAD, counters), updates the same sessions and returns
\* the same response.
C13_UpdateIdempotent ==
    last.op = "update_settings" =>
       \E again \in { update_participant_settings(heap, sessions,
                        rpc.room_id, rpc.participant_id,
                        rpc.target_language, rpc.translation_enabled) } :
          /\ again.heap = heap
          /\ again.updated = rpc.updated
          /\ again.response.success = rpc.success
          /\ again.response.message = rpc.message

\* a successful call on a session with buffered audio
C13_Witness ==
    /\ last.op = "update_settings"
    /\ rpc.success /\ rpc.message = "Settings updated"
    /\ \E o \in rpc.updated :
          /\ heap[o].audio_buffer # <<>>
          /\ \E i \in 1..Len(heap[o].participants) :
                /\ heap[o].participants[i].participant_id = rpc.participant_id
                /\ heap[o].participants[i].target_language = "en"
                /\ heap[o].participants[i].translation_enabled

\* what a step leaves of the session o when it only replaces the speaker and
\* recomputes the strategy
OnlySpeakerReplaced(o) ==
    /\ Len(heap') = Len(heap)
    /\ \A x \in 1..Len(heap) : x # o => heap'[x] = heap[x]
    /\ heap'[o] = [heap[o] EXCEPT
                     !.speaker = heap'[o].speaker,
                     !.primary_strategy = primary_strategy_of(heap'[o])]
    /\ heap'[o].audio_buffer = heap[o].audio_buffer
    /\ heap'[o].vad = heap[o].vad
    /\ heap'[o].participants = heap[o].participants
    /\ heap'[o].chunks_processed = heap[o].chunks_processed
    /\ heap'[o].sentences_completed = heap[o].sentences_completed
    /\ heap'[o].silence_skipped = heap[o].silence_skipped
    /\ fed' = fed
    /\ sessions' = sessions
    /\ \A h \in DOMAIN handlers : handlers'[h].out = handlers[h].out

C15_NewSessionReady ==
    last.op = "session_init" =>
       /\ last.obj = Len(heap)
       /\ sessions[handlers[last.h].current_session_id] = last.obj
       /\ handlers[last.h].session_state = last.obj
       /\ heap[last.obj].session_id = handlers[last.h].current_session_id
       /\ Len(last.yielded) = 1
       /\ handlers[last.h].out # <<>>
       /\ handlers[last.h].out[Len(handlers[last.h].out)] = last.yielded[1]
       /\ \E ready \in { last.yielded[1] } :
             /\ ready.type = "status" /\ ready.status = "READY"
             /\ ready.strategy = heap[last.obj].primary_strategy
             /\ ready.strategy = primary_strategy_of(heap[last.obj])
             /\ IF get_target_languages(heap[last.obj]) = {}
                THEN ready.primary_target_language = ""
                ELSE ready.primary_target_language
                       \in get_target_languages(heap[last.obj])

\* C15, the count: a step that handles such a session_init adds one message
\* to the stream and one object to the sessions
C15_OneReady ==
    [][ last'.op = "session_init" =>
           /\ Len(heap') = Len(heap) + 1
           /\ sessions[handlers'[last'.h].current_session_id] = NoSession
           /\ Len(handlers'[last'.h].out) = Len(handlers[last'.h].out) + 1
      ]_vars

C15_NewSessionEmitsOneReady == []C15_NewSessionReady /\ C15_OneReady

\* a READY for a SENTENCE_BASED session whose first participant is not a
\* target
C15_Witness ==
    /\ last.op = "session_init"
    /\ last.yielded[1].strategy = SENTENCE_BASED
    /\ last.yielded[1].primary_target_language = "ar"
    /\ heap[last.obj].participants[1].target_language = "ko"

\* a READY for a session without target language
C15_WitnessNoTarget ==
    /\ last.op = "session_init"
    /\ get_target_languages(heap[last.obj]) = {}
    /\ last.yielded[1].primary_target_language = ""
    /\ last.yielded[1].strategy = CHUNK_BASED

\* ------------------------------------------------------------------------
\* Properties of the registry with two streams
\* ------------------------------------------------------------------------

\* the streams whose handler is in its loop with this session in
\* session_state
Holders(obj) ==
    { h \in DOMAIN handlers :
        handlers[h].pc = "open" /\ handlers[h].session_state = obj }

\* no SessionState is the session_state of two running handlers
C16_ExclusiveSession ==
    \A obj \in DOMAIN heap : Cardinality(Holders(obj)) <= 1

\* no handler appends speech to an audio buffer that holds, undrained, the
\* speech another handler appended the step before
C16_ExclusiveBuffer ==
    [][ ~ ( /\ last.op = "audio_chunk" /\ last.has_speech /\ last.reason = ""
            /\ last'.op = "audio_chunk" /\ last'.has_speech
            /\ last'.obj = last.obj
            /\ last'.h # last.h
            /\ Len(heap'[last'.obj].audio_buffer)
                 > Len(heap[last.obj].audio_buffer) )
      ]_vars

\* C16: at no time do two stream handlers operate on the same SessionState or
\* append to the same audio buffer, also when two streams send session_init
\* with the same session id.
C16_NoSharedSession == []C16_ExclusiveSession /\ C16_ExclusiveBuffer

\* the SessionState objects the registry holds
RegisteredObjects == { sessions[id] : id \in DOMAIN sessions } \ {NoSession}

\* C17: once a stream handler has terminated, by session_end, by the end of
\* the requests or by a stream error, no session that it created is in the
\* registry, whatever session ids its messages carried.
C17_CreatedSessionsUnregistered ==
    \A h \in DOMAIN handlers :
       handlers[h].pc = "closed" =>
          \A obj \in DOMAIN heap :
             created_by[obj] = h => obj \notin RegisteredObjects

\* ------------------------------------------------------------------------
\* One stream whose utterances the STT stage hears as a filler, as a single
\* character, or as nothing
\* ------------------------------------------------------------------------

FillerText == <<" ", "U", "m">>
ShortText == <<"7", " ">>

PipelineBackends ==
    [ Backends EXCEPT
        !.stt = { SttResult(FillerText, 90), SttResult(ShortText, 70),
                  SttResult(<<>>, 0) } ]

NextPipeline ==
    \E h \in Streams, session_id \in SessionIds :
       \/ SessionInit(h, session_id, "r1", RoomInit)
       \/ \E audio_chunk \in ChunkSamples :
             AudioChunk(h, session_id, audio_chunk, PipelineBackends,
                        TranscriptIds)
       \/ SessionEnd(h, session_id, PipelineBackends, TranscriptIds)
       \/ StreamClosed(h)

SpecPipeline == Init /\ [][NextPipeline]_vars

\* ------------------------------------------------------------------------
\* Properties of the pipeline after the STT stage
\* ------------------------------------------------------------------------

\* the text the STT stage returned to the last message of record l, when that
\* message ran the pipeline and the stage returned: the entry of the cache
\* under the key of the utterance drained
SttTexts(hp, l, cache) ==
    IF l.invoked = <<>> THEN {}
    ELSE LET key == SttKey(hp[l.obj].room_id,
                           hp[l.obj].speaker.participant_id, l.process_bytes)
         IN  IF key \in DOMAIN cache.stt THEN { cache.stt[key].text } ELSE {}

Fillers(texts) == { t \in texts : IsFiller(t) }

Shorts(texts) ==
    { t \in texts : t # <<>> /\ ~IsFiller(t) /\ Len(Strip(t)) <= 1 }

\* the last message yielded one message, a TranscriptResult of this text
\* without translations
OnlyBareTranscript(original_text) ==
    /\ Len(last.yielded) = 1
    /\ last.yielded[1].type = "transcript"
    /\ last.yielded[1].original_text = original_text
    /\ last.yielded[1].translations = <<>>

\* a step leaves the translation and the speech entries of the cache alone
NoTranslateNoSynthesize ==
    /\ room_cache'.mt = room_cache.mt
    /\ room_cache'.tts = room_cache.tts

C18_FillerEmission ==
    \A original_text \in Fillers(SttTexts(heap, last, room_cache)) :
       OnlyBareTranscript(original_text)

C18_FillerStages ==
    [][ Fillers(SttTexts(heap', last', room_cache')) # {}
          => NoTranslateNoSynthesize ]_vars

\* C18: if the STT text of an utterance, trimmed and case-folded, is a
\* filler word, the pipeline emits one TranscriptResult with the original
\* text and no translations, emits no AudioResult, and runs neither the
\* translate nor the synthesize stage.
C18_FillerTranscriptOnly == []C18_FillerEmission /\ C18_FillerStages

C19_ShortEmission ==
    \A original_text \in Shorts(SttTexts(heap, last, room_cache)) :
       OnlyBareTranscript(original_text)

C19_ShortStages ==
    [][ Shorts(SttTexts(heap', last', room_cache')) # {}
          => NoTranslateNoSynthesize ]_vars

\* C19: if the STT text of an utterance is not empty, not a filler, and at
\* most one character long after trimming, the pipeline emits one
\* TranscriptResult without translations and no AudioResult, and runs neither
\* the translate nor the synthesize stage.
C19_ShortTranscriptOnly == []C19_ShortEmission /\ C19_ShortStages

\* the TranscriptResult and AudioResult messages a stream has got
Results(h) ==
    { i \in DOMAIN handlers[h].out :
        handlers[h].out[i].type \in {"transcript", "audio"} }

\* a session none of whose audio chunks the VAD has found speech in: its
\* buffer is empty, the pipeline has not run for it, and its streams have no
\* TranscriptResult and no AudioResult
C20_SilentSession ==
    \A obj \in DOMAIN heap :
       ~speech_seen[obj] =>
          /\ heap[obj].audio_buffer = <<>>
          /\ heap[obj].chunks_processed = 0
          /\ last.obj = obj => last.invoked = <<>> /\ last.process_bytes = <<>>
          /\ \A h \in DOMAIN handlers :
                handlers[h].session_state = obj => Results(h) = {}

\* an utterance for which the STT stage returned the empty text: nothing is
\* yielded
C20_EmptySttText ==
    <<>> \in SttTexts(heap, last, room_cache) => last.yielded = <<>>

\* C20: while every audio_chunk of a session is non-speech for the VAD,
\* however many there are, the buffer of the session stays empty, the
\* pipeline is not invoked and no TranscriptResult or AudioResult is emitted;
\* and when the STT stage returns empty text for a drained utterance, the
\* pipeline emits nothing for it.
C20_NothingWithoutSpeech == C20_SilentSession /\ C20_EmptySttText

\* a session after a non-speech chunk that followed another message for it
C20_Witness ==
    /\ last.op = "audio_chunk"
    /\ ~last.has_speech
    /\ ~speech_seen[last.obj]
    /\ handlers[last.h].out # <<>>

\* a drained utterance with empty STT text
C20_WitnessEmptyText ==
    /\ last.invoked # <<>>
    /\ <<>> \in SttTexts(heap, last, room_cache)
    /\ last.reason = "sentence_end"

\* ------------------------------------------------------------------------
\* Properties of the counters, of failures and of the order of the messages
\* ------------------------------------------------------------------------

\* C21: after an audio_chunk that the VAD classified as silence, and that was
\* therefore not buffered, the silence_skipped counter of the session is
\* above its initial value 0.
C21_SilenceSkippedCounts ==
    (last.op = "audio_chunk" /\ ~last.has_speech)
       => heap[last.obj].silence_skipped > 0

\* One stream whose backends never raise but can return nothing: the
\* translation of a text, or the speech for a translation, can be empty. The
\* roster has two listeners to translate for, one who listens in the
\* language of the speaker, and one with translation off.

UtteranceInit ==
    [ speaker |-> Speaker("u1", "Kim", "ko"),
      participants |-> << Participant("p1", "ja", TRUE),
                          Participant("p2", "en", TRUE),
                          Participant("p3", "ko", TRUE),
                          Participant("p4", "fr", FALSE) >> ]

UtteranceBackends ==
    [ stt |-> { SttResult(<<"h", "i", "!">>, 95) },
      mt  |-> { MtResult(<<"H", "e", "y">>), MtResult(<<>>) },
      tts |-> { TtsResult(<<"mp3">>, 400), TtsResult(<<>>, 0) } ]

NextUtterance ==
    \E h \in Streams, session_id \in SessionIds :
       \/ SessionInit(h, session_id, "r1", UtteranceInit)
       \/ \E audio_chunk \in ChunkSamples :
             AudioChunk(h, session_id, audio_chunk, UtteranceBackends,
                        TranscriptIds)
       \/ SessionEnd(h, session_id, UtteranceBackends, TranscriptIds)
       \/ StreamClosed(h)

SpecUtterance == Init /\ [][NextUtterance]_vars

\* the texts the pipeline translates: not empty, no filler, more than a
\* character
Sentences(texts) ==
    { t \in texts : t # <<>> /\ ~IsFiller(t) /\ Len(Strip(t)) > 1 }

\* the positions of the messages of a type among those the last message
\* yielded
Yielded(type) ==
    { i \in DOMAIN last.yielded : last.yielded[i].type = type }

\* the target languages of the translation entries of message i
EntryLanguages(i) ==
    { last.yielded[i].translations[k].target_language :
        k \in DOMAIN last.yielded[i].translations }

\* the target languages of the AudioResults the last message yielded
AudioLanguages ==
    { last.yielded[i].target_language : i \in Yielded("audio") }

\* C22: for an utterance whose STT text is translated, an empty result of
\* translate or synthesize for a target language removes only the entry or
\* the audio of that target. The TranscriptResult is emitted, first and once;
\* a target is in it exactly when its translation is not empty; a target has
\* an AudioResult exactly when its translation and its speech are not empty;
\* and no speech is asked for an empty translation.
C22_EmptyResultDropsOneTarget ==
    \A text \in Sentences(SttTexts(heap, last, room_cache)) :
       LET state == heap[last.obj]
           mt(target_lang) ==
              MtKey(state.room_id, text, state.speaker.source_language,
                    target_lang)
           translated(target_lang) ==
              IF mt(target_lang) \in DOMAIN room_cache.mt
              THEN room_cache.mt[mt(target_lang)].text ELSE <<>>
           tts(target_lang) ==
              TtsKey(state.room_id, translated(target_lang), target_lang)
           spoken(target_lang) ==
              IF tts(target_lang) \in DOMAIN room_cache.tts
              THEN room_cache.tts[tts(target_lang)].audio_data ELSE <<>>
       IN  /\ Yielded("transcript") = {1}
           /\ last.yielded[1].original_text = text
           /\ \A target_lang \in get_target_languages(state) :
                 /\ target_lang \in EntryLanguages(1)
                       <=> translated(target_lang) # <<>>
                 /\ target_lang \in AudioLanguages
                       <=> /\ translated(target_lang) # <<>>
                           /\ spoken(target_lang) # <<>>
           /\ \A key \in DOMAIN room_cache.tts : key[2] # <<>>

\* the last message was an audio_chunk that drained the buffer into a
\* pipeline that raised
DrainRaised ==
    /\ last.op = "audio_chunk"
    /\ last.invoked # <<>>
    /\ last.invoked[1].raised

StreamErrors(h) ==
    { i \in DOMAIN handlers[h].out :
        /\ handlers[h].out[i].type = "error"
        /\ handlers[h].out[i].code = "STREAM_ERROR" }

\* C24: when an exception leaves the message loop, the handler emits one
\* ErrorResponse with code STREAM_ERROR, which is the last message of the
\* stream, and the session of the handler is no longer in the registry; no
\* stream ever carries more than one STREAM_ERROR.
C24_StreamErrorOnce ==
    /\ \A h \in DOMAIN handlers : Cardinality(StreamErrors(h)) <= 1
    /\ last.op = "error" =>
          /\ handlers[last.h].pc = "closed"
          /\ StreamErrors(last.h) = { Len(handlers[last.h].out) }
          /\ Len(last.yielded) = 1
          /\ last.obj \notin RegisteredObjects

\* C25: an audio_chunk that comes before any session_init of the stream, and
\* a message without a payload the loop knows, is ignored: the step adds no
\* message to any stream, changes no session and not the registry, and leaves
\* the handler in its loop with the session it had.
C25_IgnoredMessage ==
    [][ \A h \in DOMAIN handlers, session_id \in DOMAIN sessions :
          \A payload_type \in {"audio_chunk", "none"} :
             Ignored(h, session_id, payload_type) =>
                /\ \A g \in DOMAIN handlers :
                      handlers'[g].out = handlers[g].out
                /\ heap' = heap
                /\ sessions' = sessions
                /\ room_cache' = room_cache
                /\ handlers'[h].pc = "open"
                /\ handlers'[h].session_state = handlers[h].session_state
      ]_vars

\* a stream that has sent messages, the last one with a session id, without
\* a session_init: nothing has been emitted and nothing is registered
C25_Witness ==
    \E h \in DOMAIN handlers :
       /\ handlers[h].pc = "open"
       /\ handlers[h].session_state = NoSession
       /\ Truthy(handlers[h].current_session_id)
       /\ handlers[h].out = <<>>
       /\ RegisteredObjects = {}

\* the messages a drain yielded are those of one utterance: at most one
\* TranscriptResult, in front, and AudioResults that carry its id
OneUtterance(msgs) ==
    /\ \A i \in DOMAIN msgs : msgs[i].type \in {"transcript", "audio"}
    /\ \A i \in DOMAIN msgs : msgs[i].type = "transcript" <=> i = 1
    /\ \A i \in DOMAIN msgs :
          msgs[i].type = "audio" => msgs[i].transcript_id = msgs[1].id

\* C26: on a stream the messages of an utterance come before every message
\* of an utterance drained later. Each drain appends the messages of its
\* utterance to the stream in one piece, in the step that drains.
C26_UtterancesInDrainOrder ==
    [][ \A h \in DOMAIN handlers :
          IF last'.invoked # <<>> /\ last'.h = h /\ last' # last
          THEN /\ handlers'[h].out = handlers[h].out \o last'.yielded
               /\ OneUtterance(last'.yielded)
          ELSE Results(h)' = Results(h)
      ]_vars

\* a stream with the messages of two utterances
C26_TwoUtterances ==
    \E h \in DOMAIN handlers :
       Cardinality({ i \in Results(h) :
                       handlers[h].out[i].type = "transcript" }) >= 2

\* ------------------------------------------------------------------------
\* Properties of the VAD state machine
\* ------------------------------------------------------------------------

\* C27: speech_frames counts the speech chunks since construction, the last
\* reset or the last sentence end, and the VAD goes from Idle to Speaking on
\* the call that brings the count to min_speech_frames = 3, on no other call.
\* A speech chunk returns (True, False) in both states; a chunk without
\* speech in Idle returns (False, False) and leaves the VAD as it was.
C27_EntersSpeakingAtThree ==
    /\ min_speech_frames = 3
    /\ ~vad.is_speaking => vad.speech_frames < min_speech_frames
    /\ vad_ret.op \in {"new", "reset"} => vad = Idle
    /\ vad_ret.op = "process_chunk" =>
          LET before == vad_ret.before
              speech == has_speech(vad_ret.audio_bytes)
          IN  /\ vad_ret.has_speech = speech
              /\ speech =>
                    /\ ~vad_ret.is_sentence_end
                    /\ vad.speech_frames = before.speech_frames + 1
              /\ (~speech /\ ~vad_ret.is_sentence_end) =>
                    vad.speech_frames = before.speech_frames
              /\ vad_ret.is_sentence_end => vad.speech_frames = 0
              /\ (~before.is_speaking /\ vad.is_speaking)
                    <=> /\ ~before.is_speaking
                        /\ speech
                        /\ vad.speech_frames = min_speech_frames
              /\ (~speech /\ ~before.is_speaking) =>
                    /\ ~vad_ret.is_sentence_end
                    /\ vad = before

\* the call that takes the VAD from Idle to Speaking
C27_Witness ==
    /\ vad_ret.op = "process_chunk"
    /\ ~vad_ret.before.is_speaking
    /\ vad.is_speaking
    /\ vad_ret.has_speech
    /\ vad.speech_frames = 3

\* a chunk without speech given to an Idle VAD that has counted speech
C27_WitnessIdleSilence ==
    /\ vad_ret.op = "process_chunk"
    /\ ~vad_ret.has_speech
    /\ ~vad.is_speaking
    /\ vad.speech_frames = 2

\* C28: in Speaking a speech chunk sets silence_frames to zero, so that
\* silence_frames is the number of chunks without speech in a row and the
\* sentence end is returned only on the max_silence_frames-th of them; on
\* that call the VAD becomes Idle with speech_frames = 0 and
\* silence_frames = 0; every earlier chunk without speech in Speaking
\* returns (False, False).
C28_SilenceRunEndsSentence ==
    /\ vad.is_speaking => vad.silence_frames = vad_ret.quiet
    /\ (vad_ret.op = "process_chunk" /\ vad_ret.before.is_speaking) =>
          LET before == vad_ret.before
              speech == has_speech(vad_ret.audio_bytes)
          IN  /\ speech =>
                    /\ vad_ret.has_speech /\ ~vad_ret.is_sentence_end
                    /\ vad.is_speaking
                    /\ vad.silence_frames = 0
              /\ vad_ret.is_sentence_end =>
                    /\ ~speech /\ ~vad_ret.has_speech
                    /\ vad_ret.quiet = max_silence_frames
                    /\ vad = Idle
              /\ (~speech /\ vad_ret.quiet < max_silence_frames) =>
                    /\ ~vad_ret.has_speech /\ ~vad_ret.is_sentence_end
                    /\ vad.is_speaking
                    /\ vad.silence_frames = before.silence_frames + 1
                    /\ vad.speech_frames = before.speech_frames
              /\ vad_ret.quiet <= max_silence_frames

\* a speech chunk that ends a run of silence in Speaking
C28_Witness ==
    /\ vad_ret.op = "process_chunk"
    /\ vad_ret.before.is_speaking
    /\ vad_ret.before.silence_frames = max_silence_frames - 1
    /\ vad_ret.has_speech
    /\ vad.silence_frames = 0

\* a sentence end after speech that came while Speaking
C28_WitnessSentenceEnd ==
    /\ vad_ret.op = "process_chunk"
    /\ vad_ret.is_sentence_end
    /\ vad_ret.before.speech_frames > min_speech_frames
    /\ vad = Idle

\* ------------------------------------------------------------------------
\* Properties of the targets of an utterance
\* ------------------------------------------------------------------------

\* the languages the translate stage has been asked for with this text of
\* this session: those with an entry of the translation cache (the stage of
\* this specification always returns, and what it returns is stored)
TranslatedLanguages(state, text) ==
    { key[4] : key \in { k \in DOMAIN room_cache.mt :
                           /\ k[1] = state.room_id
                           /\ k[2] = text
                           /\ k[3] = state.speaker.source_language } }

\* C29: the languages an utterance is translated to are the members of
\* get_target_languages() of its session; no translation entry and no
\* AudioResult is for the source language of the speaker or for a language
\* that only participants with translation off ask for.
C29_TranslatedAreTargets ==
    \A text \in Sentences(SttTexts(heap, last, room_cache)) :
       LET state == heap[last.obj]
       IN  /\ TranslatedLanguages(state, text) = get_target_languages(state)
           /\ \A i \in Yielded("transcript") :
                 EntryLanguages(i) \subseteq get_target_languages(state)
           /\ AudioLanguages \subseteq get_target_languages(state)
           /\ state.speaker.source_language
                 \notin TranslatedLanguages(state, text)
           /\ "fr" \notin TranslatedLanguages(state, text)

\* ------------------------------------------------------------------------
\* models/session.py: get_participants_by_target_language on the sessions of
\* rooms whose rosters change
\* ------------------------------------------------------------------------

\* the languages asked for: those of the rosters and one nobody listens in
RosterLanguages == {"ja", "ko", "ar", "en", "fr"}

\* session.get_participants_by_target_language(target_lang)
GetParticipantsByTargetLanguage(obj, target_lang) ==
    /\ roster_ret' =
         [ op |-> "get_participants_by_target_language",
           participants |-> heap[obj].participants,
           target_lang |-> target_lang,
           ret |-> get_participants_by_target_language(heap[obj], target_lang) ]
    /\ UNCHANGED << heap, sessions, handlers, room_cache, fed, last, vad,
                    vad_ret, clients, key_lock, stt_runs, topo, rpc,
                    created_by, speech_seen, running >>

NextRoster ==
    \/ \E h \in Streams, session_id \in SessionIds, req \in RoomInitRequests :
          RoomSessionInit(h, session_id, req.room_id, req.init)
    \/ \E h \in Streams : StreamClosed(h)
    \/ \E room_id \in RoomRoomIds, req \in RoomSettings :
          UpdateParticipantSettings(room_id, req.participant_id,
                                    req.target_language,
                                    req.translation_enabled)
    \/ \E obj \in DOMAIN heap, target_lang \in RosterLanguages :
          GetParticipantsByTargetLanguage(obj, target_lang)

SpecRoster == Init /\ [][NextRoster]_vars

\* the positions in the roster of the last call of the participants who ask
\* for its language
Preferring ==
    { j \in DOMAIN roster_ret.participants :
        roster_ret.participants[j].target_language = roster_ret.target_lang }

\* those of them with translation on
PreferringEnabled ==
    { j \in Preferring : roster_ret.participants[j].translation_enabled }

\* ret lists the ids of the participants at these positions, each once, in
\* the order of the roster
ListsRoster(ret, positions) ==
    /\ Len(ret) = Cardinality(positions)
    /\ { ret[i] : i \in DOMAIN ret }
         = { roster_ret.participants[j].participant_id : j \in positions }
    /\ \A i, k \in DOMAIN ret :
          i < k =>
             \E j, l \in positions :
                /\ j < l
                /\ roster_ret.participants[j].participant_id = ret[i]
                /\ roster_ret.participants[l].participant_id = ret[k]

\* C30 as stated: get_participants_by_target_language(lang) returns the id
\* of every participant of the roster whose target language is lang,
\* whatever the translation flag of the participant.
C30_AllPreferring ==
    roster_ret.op = "get_participants_by_target_language" =>
       ListsRoster(roster_ret.ret, Preferring)

\* C30, amended: get_participants_by_target_language(lang) returns the ids
\* of the participants of the roster whose target language is lang and whose
\* translation flag is true, and of no other.
C30_EnabledPreferring ==
    roster_ret.op = "get_participants_by_target_language" =>
       ListsRoster(roster_ret.ret, PreferringEnabled)

\* a call for a language that a participant with translation off and a
\* participant with translation on ask for
C30_Witness ==
    /\ roster_ret.op = "get_participants_by_target_language"
    /\ PreferringEnabled # {}
    /\ PreferringEnabled # Preferring
    /\ Len(roster_ret.ret) = 1

\* ------------------------------------------------------------------------
\* Properties of the messages of an utterance
\* ------------------------------------------------------------------------

\* the translation entries of the TranscriptResults the last message yielded
Entries ==
    UNION { { last.yielded[i].translations[k] :
                k \in DOMAIN last.yielded[i].translations }
            : i \in Yielded("transcript") }

\* the speech the synthesize stage returned for an entry, as the cache
\* holds it
Synthesized(entry) ==
    LET key == TtsKey(heap[last.obj].room_id, entry.translated_text,
                      entry.target_language)
    IN  IF key \in DOMAIN room_cache.tts
        THEN room_cache.tts[key].audio_data ELSE <<>>

\* C31: an AudioResult is emitted for a translation entry exactly when the
\* translated text has two characters or more after trimming, is no filler,
\* and the synthesize stage returned audio; it carries the target language
\* and the participant ids of the entry.
C31_AudioForEntry ==
    /\ \A entry \in Entries :
          (\E i \in Yielded("audio") :
              /\ last.yielded[i].target_language = entry.target_language
              /\ last.yielded[i].target_participant_ids
                   = entry.target_participant_ids)
          <=> /\ Len(Strip(entry.translated_text)) >= MIN_TTS_TEXT_LENGTH
              /\ ~IsFiller(entry.translated_text)
              /\ Synthesized(entry) # <<>>
    /\ \A i \in Yielded("audio") :
          \E entry \in Entries :
             /\ last.yielded[i].target_language = entry.target_language
             /\ last.yielded[i].target_participant_ids
                  = entry.target_participant_ids

\* a TranscriptResult with a translation entry
C31_AnEntry == Entries # {}

\* a step that is the handling of a message without a branch
IgnoredStep ==
    \E h \in DOMAIN handlers, session_id \in DOMAIN sessions :
       \E payload_type \in {"audio_chunk", "none"} :
          Ignored(h, session_id, payload_type)

\* the two counters of a session are equal
C32_CountersEqual ==
    \A obj \in DOMAIN heap :
       heap[obj].chunks_processed = heap[obj].sentences_completed

\* a step that invokes the pipeline for a session adds one to both of its
\* counters, also when the pipeline raises; every other step leaves them
C32_CountersStep ==
    [][ \A obj \in DOMAIN heap :
          LET drains == IF /\ ~IgnoredStep
                           /\ last'.invoked # <<>>
                           /\ last'.obj = obj
                        THEN 1 ELSE 0
          IN  /\ heap'[obj].chunks_processed
                   = heap[obj].chunks_processed + drains
              /\ heap'[obj].sentences_completed
                   = heap[obj].sentences_completed + drains
      ]_vars

\* a session starts with both counters at zero
C32_CountersStart ==
    [][ \A obj \in DOMAIN heap' \ DOMAIN heap :
          /\ heap'[obj].chunks_processed = 0
          /\ heap'[obj].sentences_completed = 0 ]_vars

\* C32: every pipeline invocation adds one to chunks_processed and, being
\* always final, one to sentences_completed, before the STT stage and
\* whatever the stages do afterwards; so in every state both counters of a
\* session equal the number of its drains.
C32_CountersCountDrains ==
    []C32_CountersEqual /\ C32_CountersStep /\ C32_CountersStart

\* a session after its second drain, the pipeline having raised
C32_Witness ==
    /\ last.invoked # <<>>
    /\ last.invoked[1].raised
    /\ heap[last.obj].chunks_processed = 2
    /\ heap[last.obj].sentences_completed = 2

\* C33: every TranscriptResult emitted has is_partial = not is_final.
C33_PartialIsNotFinal ==
    \A h \in DOMAIN handlers :
       \A i \in DOMAIN handlers[h].out :
          handlers[h].out[i].type = "transcript" =>
             handlers[h].out[i].is_partial = ~handlers[h].out[i].is_final

\* a stream with a TranscriptResult
C33_ATranscript ==
    \E h \in DOMAIN handlers :
       \E i \in DOMAIN handlers[h].out :
          handlers[h].out[i].type = "transcript"

\* ------------------------------------------------------------------------
\* The frame of UpdateParticipantSettings
\* ------------------------------------------------------------------------

\* the registered sessions of the room of the request rq whose roster has
\* its participant
Matching(rq) ==
    { o \in RegisteredObjects :
        /\ heap[o].room_id = rq.room_id
        /\ InRoster(heap[o], rq.participant_id) }

\* the step changes, of session o, the target language and the flag of the
\* participant of rq, and the primary strategy, and nothing else
OnlySettingsReplaced(o, rq) ==
    /\ Len(heap'[o].participants) = Len(heap[o].participants)
    /\ \A i \in DOMAIN heap[o].participants :
          IF heap[o].participants[i].participant_id = rq.participant_id
          THEN heap'[o].participants[i] =
                 [ heap[o].participants[i] EXCEPT
                     !.target_language = rq.target_language,
                     !.translation_enabled = rq.translation_enabled ]
          ELSE heap'[o].participants[i] = heap[o].participants[i]
    /\ heap'[o].primary_strategy = primary_strategy_of(heap'[o])
    /\ heap'[o] = [ heap[o] EXCEPT
                      !.participants = heap'[o].participants,
                      !.primary_strategy = heap'[o].primary_strategy ]

\* C34: UpdateParticipantSettings sets the target language and the flag of
\* the named participant in the registered sessions of the room whose roster
\* has the participant, and recomputes their strategy; it leaves every other
\* session, every other participant, the buffers, the VADs, the registry and
\* the streams as they are. It returns success exactly when it updated a
\* session, and with "Participant not found" it has changed nothing.
C34_UpdateFrame ==
    [][ last'.op = "update_settings" =>
          /\ rpc'.updated = Matching(rpc')
          /\ rpc'.success <=> Matching(rpc') # {}
          /\ rpc'.message = IF Matching(rpc') # {} THEN "Settings updated"
                            ELSE "Participant not found"
          /\ Len(heap') = Len(heap)
          /\ \A o \in DOMAIN heap :
                IF o \in Matching(rpc') THEN OnlySettingsReplaced(o, rpc')
                ELSE heap'[o] = heap[o]
          /\ rpc'.message = "Participant not found" => heap' = heap
          /\ sessions' = sessions
          /\ handlers' = handlers
          /\ room_cache' = room_cache
      ]_vars

\* an update of a session with buffered audio that is SENTENCE_BASED after it
C34_Witness ==
    /\ last.op = "update_settings"
    /\ rpc.success
    /\ \E o \in rpc.updated :
          /\ heap[o].audio_buffer # <<>>
          /\ heap[o].primary_strategy = SENTENCE_BASED
          /\ heap[o].speaker.source_language = "ko"

\* a request for a participant of a session of the room that is no longer
\* registered
C34_WitnessNotFound ==
    /\ last.op = "update_settings"
    /\ rpc.message = "Participant not found"
    /\ \E o \in DOMAIN heap :
          /\ heap[o].room_id = rpc.room_id
          /\ InRoster(heap[o], rpc.participant_id)

\* ------------------------------------------------------------------------
\* A re-sent session_init and UpdateParticipantSettings, statement by
\* statement
\* ------------------------------------------------------------------------

\* session.py lines 74-83: the strategy for a source language and the target
\* languages the loop iterates over
strategy_of_targets(source_lang, target_langs) ==
    IF \E target_lang \in target_langs :
          get_strategy(source_lang, target_lang) = SENTENCE_BASED
    THEN SENTENCE_BASED
    ELSE CHUNK_BASED

\* a statement of one of the two operations that is not the last one
Statement == [NoLast EXCEPT !.op = "statement"]

RaceFrame ==
    UNCHANGED << sessions, room_cache, fed, vad, vad_ret, clients, key_lock,
                 stt_runs, topo, created_by, speech_seen, roster_ret >>

\* conversation.py lines 42-62: the request is read and the registry is
\* looked up under the lock; the session exists
ResentInitLookup(h, session_id, init) ==
    /\ handlers[h].pc = "open"
    /\ running.init.pc = "idle"
    /\ running.update.pc = "idle"
    /\ sessions[session_id] # NoSession
    /\ running' = [running EXCEPT
                     !.init = [ pc |-> "speaker", h |-> h,
                                obj |-> sessions[session_id],
                                speaker |-> init.speaker,
                                source_lang |-> "", strategy |-> "" ],
                     !.concurrent = running.update.pc # "idle"]
    /\ handlers' = [handlers EXCEPT ![h].current_session_id = session_id]
    /\ last' = Statement
    /\ UNCHANGED << heap, rpc >>
    /\ RaceFrame

\* conversation.py line 64: existing_session.speaker = speaker
ResentInitSpeaker ==
    /\ running.init.pc = "speaker"
    /\ heap' = [heap EXCEPT ![running.init.obj].speaker = running.init.speaker]
    /\ running' = [running EXCEPT !.init.pc = "source"]
    /\ last' = Statement
    /\ UNCHANGED << handlers, rpc >>
    /\ RaceFrame

\* session.py line 74: source_lang = self.speaker.source_language
ResentInitSource ==
    /\ running.init.pc = "source"
    /\ running' = [running EXCEPT
                     !.init.source_lang =
                        heap[running.init.obj].speaker.source_language,
                     !.init.pc = "targets"]
    /\ last' = Statement
    /\ UNCHANGED << heap, handlers, rpc >>
    /\ RaceFrame

\* session.py lines 76-82: the loop over get_target_languages() finds the
\* strategy
ResentInitTargets ==
    /\ running.init.pc = "targets"
    /\ running' = [running EXCEPT
                     !.init.strategy =
                        strategy_of_targets(running.init.source_lang,
                          get_target_languages(heap[running.init.obj])),
                     !.init.pc = "store"]
    /\ last' = Statement
    /\ UNCHANGED << heap, handlers, rpc >>
    /\ RaceFrame

\* session.py lines 78 and 82, conversation.py line 66: the strategy is
\* stored and the stream holds the session
ResentInitStore ==
    /\ running.init.pc = "store"
    /\ heap' = [heap EXCEPT ![running.init.obj].primary_strategy =
                               running.init.strategy]
    /\ handlers' = [handlers EXCEPT
                      ![running.init.h].session_state = running.init.obj]
    /\ running' = [running EXCEPT !.init.pc = "idle"]
    /\ last' = [NoLast EXCEPT !.op = "speaker_update", !.h = running.init.h,
                              !.obj = running.init.obj]
    /\ UNCHANGED rpc
    /\ RaceFrame

\* conversation.py lines 447-452: the lock is taken; the sessions the loop
\* will update
UpdateEnter(room_id, participant_id, target_language, translation_enabled) ==
    /\ running.update.pc = "idle"
    /\ running' = [running EXCEPT
                     !.update =
                        [ pc |-> "loop", room_id |-> room_id,
                          participant_id |-> participant_id,
                          target_language |-> target_language,
                          translation_enabled |-> translation_enabled,
                          updated |-> updated_sessions(heap, sessions,
                                        room_id, participant_id),
                          todo |-> updated_sessions(heap, sessions, room_id,
                                     participant_id),
                          session |-> 0, source_lang |-> "",
                          strategy |-> "" ],
                     !.concurrent = running.init.pc # "idle"]
    /\ last' = Statement
    /\ UNCHANGED << heap, handlers, rpc >>
    /\ RaceFrame

\* conversation.py lines 453-455: p.target_language = request.target_language
\* in the next session of the loop
UpdateLanguage ==
    /\ running.update.pc = "loop"
    /\ \E session \in running.update.todo :
          /\ heap' = [heap EXCEPT ![session].participants =
                        [i \in 1..Len(@) |->
                           IF @[i].participant_id
                                = running.update.participant_id
                           THEN [@[i] EXCEPT !.target_language =
                                               running.update.target_language]
                           ELSE @[i]]]
          /\ running' = [running EXCEPT
                           !.update.session = session,
                           !.update.todo = @ \ {session},
                           !.update.pc = "enabled"]
    /\ last' = Statement
    /\ UNCHANGED << handlers, rpc >>
    /\ RaceFrame

\* conversation.py line 456: p.translation_enabled =
\* request.translation_enabled
UpdateEnabled ==
    /\ running.update.pc = "enabled"
    /\ heap' = [heap EXCEPT ![running.update.session].participants =
                  [i \in 1..Len(@) |->
                     IF @[i].participant_id = running.update.participant_id
                     THEN [@[i] EXCEPT !.translation_enabled =
                                         running.update.translation_enabled]
                     ELSE @[i]]]
    /\ running' = [running EXCEPT !.update.pc = "source"]
    /\ last' = Statement
    /\ UNCHANGED << handlers, rpc >>
    /\ RaceFrame

\* session.py line 74, called from conversation.py line 457
UpdateSource ==
    /\ running.update.pc = "source"
    /\ running' = [running EXCEPT
                     !.update.source_lang =
                        heap[running.update.session].speaker.source_language,
                     !.update.pc = "targets"]
    /\ last' = Statement
    /\ UNCHANGED << heap, handlers, rpc >>
    /\ RaceFrame

\* session.py lines 76-82, called from conversation.py line 457
UpdateTargets ==
    /\ running.update.pc = "targets"
    /\ running' = [running EXCEPT
                     !.update.strategy =
                        strategy_of_targets(running.update.source_lang,
                          get_target_languages(heap[running.update.session])),
                     !.update.pc = "store"]
    /\ last' = Statement
    /\ UNCHANGED << heap, handlers, rpc >>
    /\ RaceFrame

\* session.py lines 78 and 82, conversation.py line 458
UpdateStore ==
    /\ running.update.pc = "store"
    /\ heap' = [heap EXCEPT ![running.update.session].primary_strategy =
                               running.update.strategy]
    /\ running' = [running EXCEPT !.update.pc = "loop"]
    /\ last' = Statement
    /\ UNCHANGED << handlers, rpc >>
    /\ RaceFrame

\* conversation.py lines 460-463: the loop is over, the lock is released and
\* the response is returned
UpdateReturn ==
    /\ running.update.pc = "loop"
    /\ running.update.todo = {}
    /\ running' = [running EXCEPT !.update.pc = "idle"]
    /\ rpc' = [ op |-> "update", room_id |-> running.update.room_id,
                participant_id |-> running.update.participant_id,
                target_language |-> running.update.target_language,
                translation_enabled |-> running.update.translation_enabled,
                success |-> running.update.updated # {},
                message |-> IF running.update.updated # {}
                            THEN "Settings updated"
                            ELSE "Participant not found",
                updated |-> running.update.updated ]
    /\ last' = [NoLast EXCEPT !.op = "update_settings"]
    /\ UNCHANGED << heap, handlers >>
    /\ RaceFrame

\* the first session_init of the stream: the session is created
FirstSessionInit(h, session_id, room_id, init) ==
    /\ sessions[session_id] = NoSession
    /\ running.update.pc = "idle"
    /\ SessionInit(h, session_id, room_id, init)

\* One stream that creates its session and sends session_init again, while
\* UpdateParticipantSettings is called from another thread

NextRace ==
    \/ \E h \in Streams, session_id \in SessionIds, req \in RoomInitRequests :
          \/ FirstSessionInit(h, session_id, req.room_id, req.init)
          \/ ResentInitLookup(h, session_id, req.init)
    \/ ResentInitSpeaker
    \/ ResentInitSource
    \/ ResentInitTargets
    \/ ResentInitStore
    \/ \E room_id \in RoomRoomIds, req \in RoomSettings :
          UpdateEnter(room_id, req.participant_id, req.target_language,
                      req.translation_enabled)
    \/ UpdateLanguage
    \/ UpdateEnabled
    \/ UpdateSource
    \/ UpdateTargets
    \/ UpdateStore
    \/ UpdateReturn

SpecRace == Init /\ [][NextRace]_vars

\* both operations have completed, and they overlapped
BothCompleted ==
    /\ running.init.pc = "idle"
    /\ running.update.pc = "idle"
    /\ running.concurrent
    /\ last.op \in {"speaker_update", "update_settings"}

\* C35: once a re-sent session_init and an UpdateParticipantSettings call for
\* the same session that ran concurrently have both completed, the stored
\* primary strategy of the session is the strategy its final speaker and
\* roster give.
C35_StrategyOfFinalState ==
    ( BothCompleted /\ running.init.obj \in running.update.updated )
      => heap[running.init.obj].primary_strategy
           = primary_strategy_of(heap[running.init.obj])

\* the two operations have completed after running concurrently on one
\* session
C35_RanConcurrently ==
    BothCompleted /\ running.init.obj \in running.update.updated

\* the translation entries of the TranscriptResults stream h has received
EmittedEntries(h) ==
    UNION { { handlers[h].out[i].translations[k] :
                k \in DOMAIN handlers[h].out[i].translations }
            : i \in { j \in DOMAIN handlers[h].out :
                        handlers[h].out[j].type = "transcript" } }

\* C36: every TranslationEntry of an emitted TranscriptResult names at least
\* one participant, also when UpdateParticipantSettings changes the roster
\* while the stream is open.
C36_EntriesNameParticipants ==
    \A h \in DOMAIN handlers :
       \A entry \in EmittedEntries(h) : entry.target_participant_ids # <<>>

\* a TranscriptResult with a translation entry on a stream whose room had a
\* settings update
C36_AnEntryAfterUpdate ==
    /\ rpc.op = "update"
    /\ \E h \in DOMAIN handlers : EmittedEntries(h) # {}

\* C37: while a stream handler is in its loop with an initialized session,
\* that session is the one registered under its session id, so that the loop
\* of UpdateParticipantSettings over the registry reaches it, whatever other
\* streams do.
C37_HeldSessionRegistered ==
    \A h \in DOMAIN handlers :
       ( handlers[h].pc = "open" /\ handlers[h].session_state # NoSession )
         => sessions[heap[handlers[h].session_state].session_id]
              = handlers[h].session_state

\* every session buffer is shorter than SENTENCE_MAX_BYTES and holds whole
\* VAD frames
C38_BelowCapWholeFrames ==
    \A obj \in DOMAIN heap :
       /\ ByteLen(heap[obj].audio_buffer) < SENTENCE_MAX_BYTES
       /\ ByteLen(heap[obj].audio_buffer) % frame_size = 0

\* a buffer_full drain hands the pipeline 84 frames or more
C38_FullDrainHands84Frames ==
    (last.op = "audio_chunk" /\ last.reason = "buffer_full") =>
       /\ ByteLen(last.process_bytes) >= 80640
       /\ ByteLen(last.process_bytes) % frame_size = 0
       /\ Len(last.process_bytes) >= 84

\* C38: after the handling of every audio_chunk the session buffer is shorter
\* than SENTENCE_MAX_BYTES = 80000 bytes and a multiple of the 960-byte VAD
\* frame, whatever the sizes and the classifications of the chunks; so a
\* buffer_full drain hands the pipeline at least 80640 bytes (84 frames).
C38_BufferInWholeFrames ==
    C38_BelowCapWholeFrames /\ C38_FullDrainHands84Frames

\* the first drain of a session with uninterrupted speech: 83 frames stayed
\* in the buffer and the 84th filled it
C38_Witness ==
    /\ last.op = "audio_chunk" /\ last.reason = "buffer_full"
    /\ heap[last.obj].chunks_processed = 1
    /\ Len(last.process_bytes) = 84
    /\ \A i \in 1..84 : IsSpeechFrame(last.process_bytes[i])

\* chunks with an incomplete frame and with silent frames were handled and 83
\* frames are buffered
C38_WitnessBuffered ==
    /\ last.op = "audio_chunk" /\ last.reason = ""
    /\ ByteLen(heap[last.obj].audio_buffer) = 79680

\* C39: a drain yields at most one TranscriptResult and at most one
\* AudioResult per target language, and the target languages of its
\* AudioResults are among those of the translation entries of its
\* TranscriptResult.
C39_OnePerDrainAndLanguage ==
    last.invoked # <<>> =>
       /\ Cardinality(Yielded("transcript")) <= 1
       /\ \A i, j \in Yielded("audio") :
             last.yielded[i].target_language = last.yielded[j].target_language
               => i = j
       /\ AudioLanguages
            \subseteq UNION { EntryLanguages(i) : i \in Yielded("transcript") }

\* a drain that yielded a TranscriptResult or an AudioResult
C39_ADrainYielded ==
    /\ last.invoked # <<>>
    /\ Yielded("transcript") \cup Yielded("audio") # {}

\* ------------------------------------------------------------------------
\* One stream whose speaker changes while audio is buffered
\* ------------------------------------------------------------------------

\* two speakers take the microphone of the stream in turn
VoiceInits ==
    { [ speaker |-> Speaker("u1", "Kim", "ko"),
        participants |-> << Participant("p1", "ja", TRUE) >> ],
      [ speaker |-> Speaker("u2", "Ann", "en"),
        participants |-> << Participant("p1", "ja", TRUE) >> ] }

\* a chunk of speech in the voice of a speaker: the content ids of u2's frames
\* are a thousand above those of u1's
Voice(participant_id) ==
    [i \in 1..VoiceFrames |->
       Frame((IF participant_id = "u2" THEN 1000 ELSE 0) + 300 + i,
             "speech", 600)]

\* whose voice a frame holds
SpokenBy(frame) == IF frame.id > 1000 THEN "u2" ELSE "u1"

VoiceBackends ==
    [ stt |-> { SttResult(<<"h", "i", "!">>, 95), Failed },
      mt  |-> { MtResult(<<"H", "e", "y">>) },
      tts |-> { TtsResult(<<"mp3">>, 400) } ]

\* an audio_chunk of the scenario: the microphone carries the voice of the
\* speaker the session has at the time, or silence
VoiceAudioChunk(h, session_id) ==
    /\ handlers[h].session_state # NoSession
    /\ \E audio_chunk \in
            { Silence,
              Voice(heap[handlers[h].session_state].speaker.participant_id) } :
          AudioChunk(h, session_id, audio_chunk, VoiceBackends, TranscriptIds)

NextSpeaker ==
    \E h \in Streams, session_id \in SessionIds :
       \/ \E init \in VoiceInits : SessionInit(h, session_id, "r1", init)
       \/ VoiceAudioChunk(h, session_id)
       \/ SessionEnd(h, session_id, VoiceBackends, TranscriptIds)

SpecSpeaker == Init /\ [][NextSpeaker]_vars

\* the keys a step added to the STT store
NewSttKeys(before, after) == DOMAIN after.stt \ DOMAIN before.stt

\* a step in which the message handled drained the buffer
DrainStep(l, l2) == l2.invoked # <<>> /\ l2 # l

\* C40: an utterance is transcribed with the speaker that was current when
\* its audio was buffered: the STT key of a drain carries the id of the
\* speaker whose voice the drained frames hold, also after a re-sent
\* session_init replaced the speaker.
C40_TranscribedAsBuffered ==
    [][ DrainStep(last, last') =>
          \A key \in NewSttKeys(room_cache, room_cache') :
             \A i \in DOMAIN last'.process_bytes :
                SpokenBy(last'.process_bytes[i]) = key[2] ]_vars

\* C40, amended: an utterance is transcribed with the speaker the session has
\* when the buffer is drained: the STT key of a drain carries the id of that
\* speaker, whoever was the speaker when the audio was buffered.
C40_TranscribedAsDrained ==
    [][ DrainStep(last, last') =>
          \A key \in NewSttKeys(room_cache, room_cache') :
             /\ key[1] = heap'[last'.obj].room_id
             /\ key[2] = heap'[last'.obj].speaker.participant_id ]_vars

\* a drain of audio in the voice of one speaker after a re-sent session_init
\* made another the speaker of the session; the STT stage returned and its
\* result is stored under the id of the new speaker
C40_Witness ==
    /\ last.invoked # <<>>
    /\ \E i \in DOMAIN last.process_bytes :
          SpokenBy(last.process_bytes[i])
            # heap[last.obj].speaker.participant_id
    /\ \E key \in DOMAIN room_cache.stt :
          key[2] = heap[last.obj].speaker.participant_id

====
